---- MODULE Spec2Model ----
(***************************************************************************)
(* Model of the VoiceClaw backend (vocalis-fork/backend).                  *)
(*                                                                         *)
(* Spec: one run of services/streaming.py stream_speech_with_buffering,    *)
(* the sentence-buffered streaming of a language-model reply to the        *)
(* speech synthesiser and the websocket.  The language-model token stream, *)
(* the synthesiser and the websocket are collaborators: what they deliver  *)
(* (a token, the end of the stream, a failure) is chosen by the            *)
(* environment at each await.                                              *)
(*                                                                         *)
(* Text is a sequence of characters, one element for each code point, so   *)
(* that strip(), upper(), replace(), the substring test and the regular    *)
(* expression are computed character by character as Python computes them. *)
(* A character is the one-character string where a TLA+ string can hold    *)
(* it, and the name of its code point otherwise: "U+0149" is the one       *)
(* character U+0149.  A TLA+ string holds the code points up to U+00FF,    *)
(* and those up to U+FFFF whose low byte is 0x80 or more.                  *)
(***************************************************************************)
EXTENDS Integers, Sequences, FiniteSets, TLC

VARIABLES
    pc,                 \* position of the coroutine
    buffer,             \* streaming.py:34
    full_response,      \* streaming.py:35
    sentence_count,     \* streaming.py:36
    first_audio_sent,   \* streaming.py:37
    sent,               \* messages delivered by websocket.send_json, in order
    consumed,           \* tokens taken from llm_client.stream_response, in order
    tts_calls,          \* texts handed to tts_client.async_text_to_speech
    ret,                \* value returned by the coroutine, NoValue before
    raised,             \* exception that left the coroutine, "none" if none
    conversation_history, \* llm.py:60, LLMClient.conversation_history
    is_processing,      \* llm.py:59, LLMClient.is_processing
    call,               \* the last LLMClient method called, with its arguments
    messages,           \* payload["messages"] of the last requests.post
    result,             \* value returned by the last get_response
    n_calls,            \* number of LLMClient methods called so far
    next_id,            \* number of the next turn content handed to add_to_history
    n_posts,            \* number of requests.post calls made so far (llm.py:186)
    llm_service,        \* main.py:35, the global llm_service
    session_llm,        \* the llm_client argument of each websocket session
    invocations,        \* position of each overlapping get_response call
    checked_text,       \* argument of is_sentence_complete (streaming.py:17)
    checked_result,     \* values returned by is_sentence_complete so far
    connection,         \* transcription_deepgram.py:69, 0 for None, else the
                        \* number of the connection object
    connections,        \* state of each connection listen.v2.connect returned
    stt_is_processing,  \* transcription_deepgram.py:70, is_processing
    transcript_callback,    \* transcription_deepgram.py:71
    turn_complete_callback, \* transcription_deepgram.py:72
    handled,            \* messages given to _on_message, each with the
                        \* callback calls the handler made for it
    stt_calls,          \* position of the connect, send_audio and disconnect
                        \* coroutine the application started
    ta_pc,              \* position of the transcribe_async coroutine
    result_text,        \* transcription_deepgram.py:290
    result_metadata,    \* transcription_deepgram.py:291
    result_event,       \* transcription_deepgram.py:292, whether it is set
    ta_ret,             \* value returned by transcribe_async, NoValue before
    output_format       \* tts_client.output_format (main.py:91), read by
                        \* streaming.py:90 and 109

stream_vars == <<pc, buffer, full_response, sentence_count, first_audio_sent,
                 sent, consumed, tts_calls, ret, raised>>

llm_vars == <<conversation_history, is_processing, call, messages, result,
              n_calls, next_id, n_posts>>

session_vars == <<llm_service, session_llm>>

overlap_vars == <<invocations>>

segmenter_vars == <<checked_text, checked_result>>

tts_vars == <<output_format>>

deepgram_vars == <<connection, connections, stt_is_processing,
                   transcript_callback, turn_complete_callback, handled,
                   stt_calls, ta_pc, result_text, result_metadata, result_event,
                   ta_ret>>

\* what a step of stream_speech_with_buffering leaves alone
not_stream_vars == <<llm_vars, session_vars, overlap_vars, segmenter_vars,
                     deepgram_vars, tts_vars>>

\* what a call of an LLMClient method leaves alone
not_llm_vars == <<stream_vars, session_vars, overlap_vars, segmenter_vars,
                  deepgram_vars, tts_vars>>

vars == <<stream_vars, llm_vars, session_vars, overlap_vars, segmenter_vars,
          deepgram_vars, tts_vars>>

----------------------------------------------------------------------------
(* Bounds of the model *)

\* longest token stream the language model delivers in one run
\* longest text handed to is_sentence_complete in SpecSegmenter
MaxTextLen == 3

MaxTokens == 3

----------------------------------------------------------------------------
(* Text: Python str operations *)

LowerCase == <<"a","b","c","d","e","f","g","h","i","j","k","l","m",
               "n","o","p","q","r","s","t","u","v","w","x","y","z">>
UpperCase == <<"A","B","C","D","E","F","G","H","I","J","K","L","M",
               "N","O","P","Q","R","S","T","U","V","W","X","Y","Z">>

\* characters str.strip() removes and the regular expression's \s matches:
\* the 29 characters of str.isspace() (U+0009-U+000D, U+001C-U+0020, U+0085,
\* U+00A0, U+1680, U+2000-U+200A, U+2028, U+2029, U+202F, U+205F, U+3000)
Whitespace == {
    "\t", "\n", "", "\f", "\r", "", "", "", "", " ", "", " ", " ",
    "U+2000", "U+2001", "U+2002", "U+2003", "U+2004", "U+2005", "U+2006",
    "U+2007", "U+2008", "U+2009", "U+200A", "U+2028", "U+2029", "U+202F",
    "U+205F", "U+3000"
}

SeqMin(S) == CHOOSE x \in S : \A y \in S : x <= y
SeqMax(S) == CHOOSE x \in S : \A y \in S : x >= y

\* str.upper() of every character outside a-z that it changes, as
\* <<character, its upper-case text>>: the text has two or three characters
\* for 102 of them
UpperMap == <<
    <<"µ", <<"Μ">>>>, <<"ß", <<"S", "S">>>>, <<"à", <<"À">>>>,
    <<"á", <<"Á">>>>, <<"â", <<"Â">>>>, <<"ã", <<"Ã">>>>,
    <<"ä", <<"Ä">>>>, <<"å", <<"Å">>>>, <<"æ", <<"Æ">>>>,
    <<"ç", <<"Ç">>>>, <<"è", <<"È">>>>, <<"é", <<"É">>>>,
    <<"ê", <<"Ê">>>>, <<"ë", <<"Ë">>>>, <<"ì", <<"Ì">>>>,
    <<"í", <<"Í">>>>, <<"î", <<"Î">>>>, <<"ï", <<"Ï">>>>,
    <<"ð", <<"Ð">>>>, <<"ñ", <<"Ñ">>>>, <<"ò", <<"Ò">>>>,
    <<"ó", <<"Ó">>>>, <<"ô", <<"Ô">>>>, <<"õ", <<"Õ">>>>,
    <<"ö", <<"Ö">>>>, <<"ø", <<"Ø">>>>, <<"ù", <<"Ù">>>>,
    <<"ú", <<"Ú">>>>, <<"û", <<"Û">>>>, <<"ü", <<"Ü">>>>,
    <<"ý", <<"Ý">>>>, <<"þ", <<"Þ">>>>, <<"ÿ", <<"U+0178">>>>,
    <<"U+0101", <<"U+0100">>>>, <<"U+0103", <<"U+0102">>>>,
    <<"U+0105", <<"U+0104">>>>, <<"U+0107", <<"U+0106">>>>,
    <<"U+0109", <<"U+0108">>>>, <<"U+010B", <<"U+010A">>>>,
    <<"U+010D", <<"U+010C">>>>, <<"U+010F", <<"U+010E">>>>,
    <<"U+0111", <<"U+0110">>>>, <<"U+0113", <<"U+0112">>>>,
    <<"U+0115", <<"U+0114">>>>, <<"U+0117", <<"U+0116">>>>,
    <<"U+0119", <<"U+0118">>>>, <<"U+011B", <<"U+011A">>>>,
    <<"U+011D", <<"U+011C">>>>, <<"U+011F", <<"U+011E">>>>,
    <<"U+0121", <<"U+0120">>>>, <<"U+0123", <<"U+0122">>>>,
    <<"U+0125", <<"U+0124">>>>, <<"U+0127", <<"U+0126">>>>,
    <<"U+0129", <<"U+0128">>>>, <<"U+012B", <<"U+012A">>>>,
    <<"U+012D", <<"U+012C">>>>, <<"U+012F", <<"U+012E">>>>,
    <<"U+0131", <<"I">>>>, <<"U+0133", <<"U+0132">>>>,
    <<"U+0135", <<"U+0134">>>>, <<"U+0137", <<"U+0136">>>>,
    <<"U+013A", <<"U+0139">>>>, <<"U+013C", <<"U+013B">>>>,
    <<"U+013E", <<"U+013D">>>>, <<"U+0140", <<"U+013F">>>>,
    <<"U+0142", <<"U+0141">>>>, <<"U+0144", <<"U+0143">>>>,
    <<"U+0146", <<"U+0145">>>>, <<"U+0148", <<"U+0147">>>>,
    <<"U+0149", <<"ʼ", "N">>>>, <<"U+014B", <<"U+014A">>>>,
    <<"U+014D", <<"U+014C">>>>, <<"U+014F", <<"U+014E">>>>,
    <<"U+0151", <<"U+0150">>>>, <<"U+0153", <<"U+0152">>>>,
    <<"U+0155", <<"U+0154">>>>, <<"U+0157", <<"U+0156">>>>,
    <<"U+0159", <<"U+0158">>>>, <<"U+015B", <<"U+015A">>>>,
    <<"U+015D", <<"U+015C">>>>, <<"U+015F", <<"U+015E">>>>,
    <<"U+0161", <<"U+0160">>>>, <<"U+0163", <<"U+0162">>>>,
    <<"U+0165", <<"U+0164">>>>, <<"U+0167", <<"U+0166">>>>,
    <<"U+0169", <<"U+0168">>>>, <<"U+016B", <<"U+016A">>>>,
    <<"U+016D", <<"U+016C">>>>, <<"U+016F", <<"U+016E">>>>,
    <<"U+0171", <<"U+0170">>>>, <<"U+0173", <<"U+0172">>>>,
    <<"U+0175", <<"U+0174">>>>, <<"U+0177", <<"U+0176">>>>,
    <<"U+017A", <<"U+0179">>>>, <<"U+017C", <<"U+017B">>>>,
    <<"U+017E", <<"U+017D">>>>, <<"U+017F", <<"S">>>>,
    <<"ƀ", <<"U+0243">>>>, <<"ƃ", <<"Ƃ">>>>, <<"ƅ", <<"Ƅ">>>>,
    <<"ƈ", <<"Ƈ">>>>, <<"ƌ", <<"Ƌ">>>>, <<"ƒ", <<"Ƒ">>>>,
    <<"ƕ", <<"Ƕ">>>>, <<"ƙ", <<"Ƙ">>>>, <<"ƚ", <<"U+023D">>>>,
    <<"ƞ", <<"U+0220">>>>, <<"ơ", <<"Ơ">>>>, <<"ƣ", <<"Ƣ">>>>,
    <<"ƥ", <<"Ƥ">>>>, <<"ƨ", <<"Ƨ">>>>, <<"ƭ", <<"Ƭ">>>>,
    <<"ư", <<"Ư">>>>, <<"ƴ", <<"Ƴ">>>>, <<"ƶ", <<"Ƶ">>>>,
    <<"ƹ", <<"Ƹ">>>>, <<"ƽ", <<"Ƽ">>>>, <<"ƿ", <<"Ƿ">>>>,
    <<"ǅ", <<"Ǆ">>>>, <<"ǆ", <<"Ǆ">>>>, <<"ǈ", <<"Ǉ">>>>,
    <<"ǉ", <<"Ǉ">>>>, <<"ǋ", <<"Ǌ">>>>, <<"ǌ", <<"Ǌ">>>>,
    <<"ǎ", <<"Ǎ">>>>, <<"ǐ", <<"Ǐ">>>>, <<"ǒ", <<"Ǒ">>>>,
    <<"ǔ", <<"Ǔ">>>>, <<"ǖ", <<"Ǖ">>>>, <<"ǘ", <<"Ǘ">>>>,
    <<"ǚ", <<"Ǚ">>>>, <<"ǜ", <<"Ǜ">>>>, <<"ǝ", <<"Ǝ">>>>,
    <<"ǟ", <<"Ǟ">>>>, <<"ǡ", <<"Ǡ">>>>, <<"ǣ", <<"Ǣ">>>>,
    <<"ǥ", <<"Ǥ">>>>, <<"ǧ", <<"Ǧ">>>>, <<"ǩ", <<"Ǩ">>>>,
    <<"ǫ", <<"Ǫ">>>>, <<"ǭ", <<"Ǭ">>>>, <<"ǯ", <<"Ǯ">>>>,
    <<"ǰ", <<"J", "U+030C">>>>, <<"ǲ", <<"Ǳ">>>>, <<"ǳ", <<"Ǳ">>>>,
    <<"ǵ", <<"Ǵ">>>>, <<"ǹ", <<"Ǹ">>>>, <<"ǻ", <<"Ǻ">>>>,
    <<"ǽ", <<"Ǽ">>>>, <<"ǿ", <<"Ǿ">>>>, <<"U+0201", <<"U+0200">>>>,
    <<"U+0203", <<"U+0202">>>>, <<"U+0205", <<"U+0204">>>>,
    <<"U+0207", <<"U+0206">>>>, <<"U+0209", <<"U+0208">>>>,
    <<"U+020B", <<"U+020A">>>>, <<"U+020D", <<"U+020C">>>>,
    <<"U+020F", <<"U+020E">>>>, <<"U+0211", <<"U+0210">>>>,
    <<"U+0213", <<"U+0212">>>>, <<"U+0215", <<"U+0214">>>>,
    <<"U+0217", <<"U+0216">>>>, <<"U+0219", <<"U+0218">>>>,
    <<"U+021B", <<"U+021A">>>>, <<"U+021D", <<"U+021C">>>>,
    <<"U+021F", <<"U+021E">>>>, <<"U+0223", <<"U+0222">>>>,
    <<"U+0225", <<"U+0224">>>>, <<"U+0227", <<"U+0226">>>>,
    <<"U+0229", <<"U+0228">>>>, <<"U+022B", <<"U+022A">>>>,
    <<"U+022D", <<"U+022C">>>>, <<"U+022F", <<"U+022E">>>>,
    <<"U+0231", <<"U+0230">>>>, <<"U+0233", <<"U+0232">>>>,
    <<"U+023C", <<"U+023B">>>>, <<"U+023F", <<"U+2C7E">>>>,
    <<"U+0240", <<"U+2C7F">>>>, <<"U+0242", <<"U+0241">>>>,
    <<"U+0247", <<"U+0246">>>>, <<"U+0249", <<"U+0248">>>>,
    <<"U+024B", <<"U+024A">>>>, <<"U+024D", <<"U+024C">>>>,
    <<"U+024F", <<"U+024E">>>>, <<"U+0250", <<"U+2C6F">>>>,
    <<"U+0251", <<"U+2C6D">>>>, <<"U+0252", <<"U+2C70">>>>,
    <<"U+0253", <<"Ɓ">>>>, <<"U+0254", <<"Ɔ">>>>, <<"U+0256", <<"Ɖ">>>>,
    <<"U+0257", <<"Ɗ">>>>, <<"U+0259", <<"Ə">>>>, <<"U+025B", <<"Ɛ">>>>,
    <<"U+025C", <<"Ɜ">>>>, <<"U+0260", <<"Ɠ">>>>, <<"U+0261", <<"Ɡ">>>>,
    <<"U+0263", <<"Ɣ">>>>, <<"U+0265", <<"Ɥ">>>>, <<"U+0266", <<"Ɦ">>>>,
    <<"U+0268", <<"Ɨ">>>>, <<"U+0269", <<"Ɩ">>>>, <<"U+026A", <<"Ɪ">>>>,
    <<"U+026B", <<"U+2C62">>>>, <<"U+026C", <<"Ɬ">>>>,
    <<"U+026F", <<"Ɯ">>>>, <<"U+0271", <<"U+2C6E">>>>,
    <<"U+0272", <<"Ɲ">>>>, <<"U+0275", <<"Ɵ">>>>,
    <<"U+027D", <<"U+2C64">>>>, <<"ʀ", <<"Ʀ">>>>, <<"ʂ", <<"Ʂ">>>>,
    <<"ʃ", <<"Ʃ">>>>, <<"ʇ", <<"Ʇ">>>>, <<"ʈ", <<"Ʈ">>>>,
    <<"ʉ", <<"U+0244">>>>, <<"ʊ", <<"Ʊ">>>>, <<"ʋ", <<"Ʋ">>>>,
    <<"ʌ", <<"U+0245">>>>, <<"ʒ", <<"Ʒ">>>>, <<"ʝ", <<"Ʝ">>>>,
    <<"ʞ", <<"Ʞ">>>>, <<"U+0345", <<"Ι">>>>, <<"U+0371", <<"U+0370">>>>,
    <<"U+0373", <<"U+0372">>>>, <<"U+0377", <<"U+0376">>>>,
    <<"U+037B", <<"Ͻ">>>>, <<"U+037C", <<"Ͼ">>>>, <<"U+037D", <<"Ͽ">>>>,
    <<"ΐ", <<"Ι", "U+0308", "U+0301">>>>, <<"ά", <<"Ά">>>>,
    <<"έ", <<"Έ">>>>, <<"ή", <<"Ή">>>>, <<"ί", <<"Ί">>>>,
    <<"ΰ", <<"Υ", "U+0308", "U+0301">>>>, <<"α", <<"Α">>>>,
    <<"β", <<"Β">>>>, <<"γ", <<"Γ">>>>, <<"δ", <<"Δ">>>>,
    <<"ε", <<"Ε">>>>, <<"ζ", <<"Ζ">>>>, <<"η", <<"Η">>>>,
    <<"θ", <<"Θ">>>>, <<"ι", <<"Ι">>>>, <<"κ", <<"Κ">>>>,
    <<"λ", <<"Λ">>>>, <<"μ", <<"Μ">>>>, <<"ν", <<"Ν">>>>,
    <<"ξ", <<"Ξ">>>>, <<"ο", <<"Ο">>>>, <<"π", <<"Π">>>>,
    <<"ρ", <<"Ρ">>>>, <<"ς", <<"Σ">>>>, <<"σ", <<"Σ">>>>,
    <<"τ", <<"Τ">>>>, <<"υ", <<"Υ">>>>, <<"φ", <<"Φ">>>>,
    <<"χ", <<"Χ">>>>, <<"ψ", <<"Ψ">>>>, <<"ω", <<"Ω">>>>,
    <<"ϊ", <<"Ϊ">>>>, <<"ϋ", <<"Ϋ">>>>, <<"ό", <<"Ό">>>>,
    <<"ύ", <<"Ύ">>>>, <<"ώ", <<"Ώ">>>>, <<"ϐ", <<"Β">>>>,
    <<"ϑ", <<"Θ">>>>, <<"ϕ", <<"Φ">>>>, <<"ϖ", <<"Π">>>>,
    <<"ϗ", <<"Ϗ">>>>, <<"ϙ", <<"Ϙ">>>>, <<"ϛ", <<"Ϛ">>>>,
    <<"ϝ", <<"Ϝ">>>>, <<"ϟ", <<"Ϟ">>>>, <<"ϡ", <<"Ϡ">>>>,
    <<"ϣ", <<"Ϣ">>>>, <<"ϥ", <<"Ϥ">>>>, <<"ϧ", <<"Ϧ">>>>,
    <<"ϩ", <<"Ϩ">>>>, <<"ϫ", <<"Ϫ">>>>, <<"ϭ", <<"Ϭ">>>>,
    <<"ϯ", <<"Ϯ">>>>, <<"ϰ", <<"Κ">>>>, <<"ϱ", <<"Ρ">>>>,
    <<"ϲ", <<"Ϲ">>>>, <<"ϳ", <<"U+037F">>>>, <<"ϵ", <<"Ε">>>>,
    <<"ϸ", <<"Ϸ">>>>, <<"ϻ", <<"Ϻ">>>>, <<"U+0430", <<"U+0410">>>>,
    <<"U+0431", <<"U+0411">>>>, <<"U+0432", <<"U+0412">>>>,
    <<"U+0433", <<"U+0413">>>>, <<"U+0434", <<"U+0414">>>>,
    <<"U+0435", <<"U+0415">>>>, <<"U+0436", <<"U+0416">>>>,
    <<"U+0437", <<"U+0417">>>>, <<"U+0438", <<"U+0418">>>>,
    <<"U+0439", <<"U+0419">>>>, <<"U+043A", <<"U+041A">>>>,
    <<"U+043B", <<"U+041B">>>>, <<"U+043C", <<"U+041C">>>>,
    <<"U+043D", <<"U+041D">>>>, <<"U+043E", <<"U+041E">>>>,
    <<"U+043F", <<"U+041F">>>>, <<"U+0440", <<"U+0420">>>>,
    <<"U+0441", <<"U+0421">>>>, <<"U+0442", <<"U+0422">>>>,
    <<"U+0443", <<"U+0423">>>>, <<"U+0444", <<"U+0424">>>>,
    <<"U+0445", <<"U+0425">>>>, <<"U+0446", <<"U+0426">>>>,
    <<"U+0447", <<"U+0427">>>>, <<"U+0448", <<"U+0428">>>>,
    <<"U+0449", <<"U+0429">>>>, <<"U+044A", <<"U+042A">>>>,
    <<"U+044B", <<"U+042B">>>>, <<"U+044C", <<"U+042C">>>>,
    <<"U+044D", <<"U+042D">>>>, <<"U+044E", <<"U+042E">>>>,
    <<"U+044F", <<"U+042F">>>>, <<"U+0450", <<"U+0400">>>>,
    <<"U+0451", <<"U+0401">>>>, <<"U+0452", <<"U+0402">>>>,
    <<"U+0453", <<"U+0403">>>>, <<"U+0454", <<"U+0404">>>>,
    <<"U+0455", <<"U+0405">>>>, <<"U+0456", <<"U+0406">>>>,
    <<"U+0457", <<"U+0407">>>>, <<"U+0458", <<"U+0408">>>>,
    <<"U+0459", <<"U+0409">>>>, <<"U+045A", <<"U+040A">>>>,
    <<"U+045B", <<"U+040B">>>>, <<"U+045C", <<"U+040C">>>>,
    <<"U+045D", <<"U+040D">>>>, <<"U+045E", <<"U+040E">>>>,
    <<"U+045F", <<"U+040F">>>>, <<"U+0461", <<"U+0460">>>>,
    <<"U+0463", <<"U+0462">>>>, <<"U+0465", <<"U+0464">>>>,
    <<"U+0467", <<"U+0466">>>>, <<"U+0469", <<"U+0468">>>>,
    <<"U+046B", <<"U+046A">>>>, <<"U+046D", <<"U+046C">>>>,
    <<"U+046F", <<"U+046E">>>>, <<"U+0471", <<"U+0470">>>>,
    <<"U+0473", <<"U+0472">>>>, <<"U+0475", <<"U+0474">>>>,
    <<"U+0477", <<"U+0476">>>>, <<"U+0479", <<"U+0478">>>>,
    <<"U+047B", <<"U+047A">>>>, <<"U+047D", <<"U+047C">>>>,
    <<"U+047F", <<"U+047E">>>>, <<"ҁ", <<"Ҁ">>>>, <<"ҋ", <<"Ҋ">>>>,
    <<"ҍ", <<"Ҍ">>>>, <<"ҏ", <<"Ҏ">>>>, <<"ґ", <<"Ґ">>>>,
    <<"ғ", <<"Ғ">>>>, <<"ҕ", <<"Ҕ">>>>, <<"җ", <<"Җ">>>>,
    <<"ҙ", <<"Ҙ">>>>, <<"қ", <<"Қ">>>>, <<"ҝ", <<"Ҝ">>>>,
    <<"ҟ", <<"Ҟ">>>>, <<"ҡ", <<"Ҡ">>>>, <<"ң", <<"Ң">>>>,
    <<"ҥ", <<"Ҥ">>>>, <<"ҧ", <<"Ҧ">>>>, <<"ҩ", <<"Ҩ">>>>,
    <<"ҫ", <<"Ҫ">>>>, <<"ҭ", <<"Ҭ">>>>, <<"ү", <<"Ү">>>>,
    <<"ұ", <<"Ұ">>>>, <<"ҳ", <<"Ҳ">>>>, <<"ҵ", <<"Ҵ">>>>,
    <<"ҷ", <<"Ҷ">>>>, <<"ҹ", <<"Ҹ">>>>, <<"һ", <<"Һ">>>>,
    <<"ҽ", <<"Ҽ">>>>, <<"ҿ", <<"Ҿ">>>>, <<"ӂ", <<"Ӂ">>>>,
    <<"ӄ", <<"Ӄ">>>>, <<"ӆ", <<"Ӆ">>>>, <<"ӈ", <<"Ӈ">>>>,
    <<"ӊ", <<"Ӊ">>>>, <<"ӌ", <<"Ӌ">>>>, <<"ӎ", <<"Ӎ">>>>,
    <<"ӏ", <<"Ӏ">>>>, <<"ӑ", <<"Ӑ">>>>, <<"ӓ", <<"Ӓ">>>>,
    <<"ӕ", <<"Ӕ">>>>, <<"ӗ", <<"Ӗ">>>>, <<"ә", <<"Ә">>>>,
    <<"ӛ", <<"Ӛ">>>>, <<"ӝ", <<"Ӝ">>>>, <<"ӟ", <<"Ӟ">>>>,
    <<"ӡ", <<"Ӡ">>>>, <<"ӣ", <<"Ӣ">>>>, <<"ӥ", <<"Ӥ">>>>,
    <<"ӧ", <<"Ӧ">>>>, <<"ө", <<"Ө">>>>, <<"ӫ", <<"Ӫ">>>>,
    <<"ӭ", <<"Ӭ">>>>, <<"ӯ", <<"Ӯ">>>>, <<"ӱ", <<"Ӱ">>>>,
    <<"ӳ", <<"Ӳ">>>>, <<"ӵ", <<"Ӵ">>>>, <<"ӷ", <<"Ӷ">>>>,
    <<"ӹ", <<"Ӹ">>>>, <<"ӻ", <<"Ӻ">>>>, <<"ӽ", <<"Ӽ">>>>,
    <<"ӿ", <<"Ӿ">>>>, <<"U+0501", <<"U+0500">>>>,
    <<"U+0503", <<"U+0502">>>>, <<"U+0505", <<"U+0504">>>>,
    <<"U+0507", <<"U+0506">>>>, <<"U+0509", <<"U+0508">>>>,
    <<"U+050B", <<"U+050A">>>>, <<"U+050D", <<"U+050C">>>>,
    <<"U+050F", <<"U+050E">>>>, <<"U+0511", <<"U+0510">>>>,
    <<"U+0513", <<"U+0512">>>>, <<"U+0515", <<"U+0514">>>>,
    <<"U+0517", <<"U+0516">>>>, <<"U+0519", <<"U+0518">>>>,
    <<"U+051B", <<"U+051A">>>>, <<"U+051D", <<"U+051C">>>>,
    <<"U+051F", <<"U+051E">>>>, <<"U+0521", <<"U+0520">>>>,
    <<"U+0523", <<"U+0522">>>>, <<"U+0525", <<"U+0524">>>>,
    <<"U+0527", <<"U+0526">>>>, <<"U+0529", <<"U+0528">>>>,
    <<"U+052B", <<"U+052A">>>>, <<"U+052D", <<"U+052C">>>>,
    <<"U+052F", <<"U+052E">>>>, <<"U+0561", <<"U+0531">>>>,
    <<"U+0562", <<"U+0532">>>>, <<"U+0563", <<"U+0533">>>>,
    <<"U+0564", <<"U+0534">>>>, <<"U+0565", <<"U+0535">>>>,
    <<"U+0566", <<"U+0536">>>>, <<"U+0567", <<"U+0537">>>>,
    <<"U+0568", <<"U+0538">>>>, <<"U+0569", <<"U+0539">>>>,
    <<"U+056A", <<"U+053A">>>>, <<"U+056B", <<"U+053B">>>>,
    <<"U+056C", <<"U+053C">>>>, <<"U+056D", <<"U+053D">>>>,
    <<"U+056E", <<"U+053E">>>>, <<"U+056F", <<"U+053F">>>>,
    <<"U+0570", <<"U+0540">>>>, <<"U+0571", <<"U+0541">>>>,
    <<"U+0572", <<"U+0542">>>>, <<"U+0573", <<"U+0543">>>>,
    <<"U+0574", <<"U+0544">>>>, <<"U+0575", <<"U+0545">>>>,
    <<"U+0576", <<"U+0546">>>>, <<"U+0577", <<"U+0547">>>>,
    <<"U+0578", <<"U+0548">>>>, <<"U+0579", <<"U+0549">>>>,
    <<"U+057A", <<"U+054A">>>>, <<"U+057B", <<"U+054B">>>>,
    <<"U+057C", <<"U+054C">>>>, <<"U+057D", <<"U+054D">>>>,
    <<"U+057E", <<"U+054E">>>>, <<"U+057F", <<"U+054F">>>>,
    <<"ր", <<"U+0550">>>>, <<"ց", <<"U+0551">>>>, <<"ւ", <<"U+0552">>>>,
    <<"փ", <<"U+0553">>>>, <<"ք", <<"U+0554">>>>, <<"օ", <<"U+0555">>>>,
    <<"ֆ", <<"U+0556">>>>, <<"և", <<"U+0535", "U+0552">>>>,
    <<"ა", <<"Ა">>>>, <<"ბ", <<"Ბ">>>>, <<"გ", <<"Გ">>>>,
    <<"დ", <<"Დ">>>>, <<"ე", <<"Ე">>>>, <<"ვ", <<"Ვ">>>>,
    <<"ზ", <<"Ზ">>>>, <<"თ", <<"Თ">>>>, <<"ი", <<"Ი">>>>,
    <<"კ", <<"Კ">>>>, <<"ლ", <<"Ლ">>>>, <<"მ", <<"Მ">>>>,
    <<"ნ", <<"Ნ">>>>, <<"ო", <<"Ო">>>>, <<"პ", <<"Პ">>>>,
    <<"ჟ", <<"Ჟ">>>>, <<"რ", <<"Რ">>>>, <<"ს", <<"Ს">>>>,
    <<"ტ", <<"Ტ">>>>, <<"უ", <<"Უ">>>>, <<"ფ", <<"Ფ">>>>,
    <<"ქ", <<"Ქ">>>>, <<"ღ", <<"Ღ">>>>, <<"ყ", <<"Ყ">>>>,
    <<"შ", <<"Შ">>>>, <<"ჩ", <<"Ჩ">>>>, <<"ც", <<"Ც">>>>,
    <<"ძ", <<"Ძ">>>>, <<"წ", <<"Წ">>>>, <<"ჭ", <<"Ჭ">>>>,
    <<"ხ", <<"Ხ">>>>, <<"ჯ", <<"Ჯ">>>>, <<"ჰ", <<"Ჰ">>>>,
    <<"ჱ", <<"Ჱ">>>>, <<"ჲ", <<"Ჲ">>>>, <<"ჳ", <<"Ჳ">>>>,
    <<"ჴ", <<"Ჴ">>>>, <<"ჵ", <<"Ჵ">>>>, <<"ჶ", <<"Ჶ">>>>,
    <<"ჷ", <<"Ჷ">>>>, <<"ჸ", <<"Ჸ">>>>, <<"ჹ", <<"Ჹ">>>>,
    <<"ჺ", <<"Ჺ">>>>, <<"ჽ", <<"Ჽ">>>>, <<"ჾ", <<"Ჾ">>>>,
    <<"ჿ", <<"Ჿ">>>>, <<"ᏸ", <<"Ᏸ">>>>, <<"ᏹ", <<"Ᏹ">>>>,
    <<"ᏺ", <<"Ᏺ">>>>, <<"ᏻ", <<"Ᏻ">>>>, <<"ᏼ", <<"Ᏼ">>>>,
    <<"ᏽ", <<"Ᏽ">>>>, <<"ᲀ", <<"U+0412">>>>, <<"ᲁ", <<"U+0414">>>>,
    <<"ᲂ", <<"U+041E">>>>, <<"ᲃ", <<"U+0421">>>>,
    <<"ᲄ", <<"U+0422">>>>, <<"ᲅ", <<"U+0422">>>>,
    <<"ᲆ", <<"U+042A">>>>, <<"ᲇ", <<"U+0462">>>>,
    <<"ᲈ", <<"U+A64A">>>>, <<"U+1D79", <<"U+A77D">>>>,
    <<"U+1D7D", <<"U+2C63">>>>, <<"ᶎ", <<"Ᶎ">>>>,
    <<"U+1E01", <<"U+1E00">>>>, <<"U+1E03", <<"U+1E02">>>>,
    <<"U+1E05", <<"U+1E04">>>>, <<"U+1E07", <<"U+1E06">>>>,
    <<"U+1E09", <<"U+1E08">>>>, <<"U+1E0B", <<"U+1E0A">>>>,
    <<"U+1E0D", <<"U+1E0C">>>>, <<"U+1E0F", <<"U+1E0E">>>>,
    <<"U+1E11", <<"U+1E10">>>>, <<"U+1E13", <<"U+1E12">>>>,
    <<"U+1E15", <<"U+1E14">>>>, <<"U+1E17", <<"U+1E16">>>>,
    <<"U+1E19", <<"U+1E18">>>>, <<"U+1E1B", <<"U+1E1A">>>>,
    <<"U+1E1D", <<"U+1E1C">>>>, <<"U+1E1F", <<"U+1E1E">>>>,
    <<"U+1E21", <<"U+1E20">>>>, <<"U+1E23", <<"U+1E22">>>>,
    <<"U+1E25", <<"U+1E24">>>>, <<"U+1E27", <<"U+1E26">>>>,
    <<"U+1E29", <<"U+1E28">>>>, <<"U+1E2B", <<"U+1E2A">>>>,
    <<"U+1E2D", <<"U+1E2C">>>>, <<"U+1E2F", <<"U+1E2E">>>>,
    <<"U+1E31", <<"U+1E30">>>>, <<"U+1E33", <<"U+1E32">>>>,
    <<"U+1E35", <<"U+1E34">>>>, <<"U+1E37", <<"U+1E36">>>>,
    <<"U+1E39", <<"U+1E38">>>>, <<"U+1E3B", <<"U+1E3A">>>>,
    <<"U+1E3D", <<"U+1E3C">>>>, <<"U+1E3F", <<"U+1E3E">>>>,
    <<"U+1E41", <<"U+1E40">>>>, <<"U+1E43", <<"U+1E42">>>>,
    <<"U+1E45", <<"U+1E44">>>>, <<"U+1E47", <<"U+1E46">>>>,
    <<"U+1E49", <<"U+1E48">>>>, <<"U+1E4B", <<"U+1E4A">>>>,
    <<"U+1E4D", <<"U+1E4C">>>>, <<"U+1E4F", <<"U+1E4E">>>>,
    <<"U+1E51", <<"U+1E50">>>>, <<"U+1E53", <<"U+1E52">>>>,
    <<"U+1E55", <<"U+1E54">>>>, <<"U+1E57", <<"U+1E56">>>>,
    <<"U+1E59", <<"U+1E58">>>>, <<"U+1E5B", <<"U+1E5A">>>>,
    <<"U+1E5D", <<"U+1E5C">>>>, <<"U+1E5F", <<"U+1E5E">>>>,
    <<"U+1E61", <<"U+1E60">>>>, <<"U+1E63", <<"U+1E62">>>>,
    <<"U+1E65", <<"U+1E64">>>>, <<"U+1E67", <<"U+1E66">>>>,
    <<"U+1E69", <<"U+1E68">>>>, <<"U+1E6B", <<"U+1E6A">>>>,
    <<"U+1E6D", <<"U+1E6C">>>>, <<"U+1E6F", <<"U+1E6E">>>>,
    <<"U+1E71", <<"U+1E70">>>>, <<"U+1E73", <<"U+1E72">>>>,
    <<"U+1E75", <<"U+1E74">>>>, <<"U+1E77", <<"U+1E76">>>>,
    <<"U+1E79", <<"U+1E78">>>>, <<"U+1E7B", <<"U+1E7A">>>>,
    <<"U+1E7D", <<"U+1E7C">>>>, <<"U+1E7F", <<"U+1E7E">>>>,
    <<"ẁ", <<"Ẁ">>>>, <<"ẃ", <<"Ẃ">>>>, <<"ẅ", <<"Ẅ">>>>,
    <<"ẇ", <<"Ẇ">>>>, <<"ẉ", <<"Ẉ">>>>, <<"ẋ", <<"Ẋ">>>>,
    <<"ẍ", <<"Ẍ">>>>, <<"ẏ", <<"Ẏ">>>>, <<"ẑ", <<"Ẑ">>>>,
    <<"ẓ", <<"Ẓ">>>>, <<"ẕ", <<"Ẕ">>>>, <<"ẖ", <<"H", "U+0331">>>>,
    <<"ẗ", <<"T", "U+0308">>>>, <<"ẘ", <<"W", "U+030A">>>>,
    <<"ẙ", <<"Y", "U+030A">>>>, <<"ẚ", <<"A", "ʾ">>>>,
    <<"ẛ", <<"U+1E60">>>>, <<"ạ", <<"Ạ">>>>, <<"ả", <<"Ả">>>>,
    <<"ấ", <<"Ấ">>>>, <<"ầ", <<"Ầ">>>>, <<"ẩ", <<"Ẩ">>>>,
    <<"ẫ", <<"Ẫ">>>>, <<"ậ", <<"Ậ">>>>, <<"ắ", <<"Ắ">>>>,
    <<"ằ", <<"Ằ">>>>, <<"ẳ", <<"Ẳ">>>>, <<"ẵ", <<"Ẵ">>>>,
    <<"ặ", <<"Ặ">>>>, <<"ẹ", <<"Ẹ">>>>, <<"ẻ", <<"Ẻ">>>>,
    <<"ẽ", <<"Ẽ">>>>, <<"ế", <<"Ế">>>>, <<"ề", <<"Ề">>>>,
    <<"ể", <<"Ể">>>>, <<"ễ", <<"Ễ">>>>, <<"ệ", <<"Ệ">>>>,
    <<"ỉ", <<"Ỉ">>>>, <<"ị", <<"Ị">>>>, <<"ọ", <<"Ọ">>>>,
    <<"ỏ", <<"Ỏ">>>>, <<"ố", <<"Ố">>>>, <<"ồ", <<"Ồ">>>>,
    <<"ổ", <<"Ổ">>>>, <<"ỗ", <<"Ỗ">>>>, <<"ộ", <<"Ộ">>>>,
    <<"ớ", <<"Ớ">>>>, <<"ờ", <<"Ờ">>>>, <<"ở", <<"Ở">>>>,
    <<"ỡ", <<"Ỡ">>>>, <<"ợ", <<"Ợ">>>>, <<"ụ", <<"Ụ">>>>,
    <<"ủ", <<"Ủ">>>>, <<"ứ", <<"Ứ">>>>, <<"ừ", <<"Ừ">>>>,
    <<"ử", <<"Ử">>>>, <<"ữ", <<"Ữ">>>>, <<"ự", <<"Ự">>>>,
    <<"ỳ", <<"Ỳ">>>>, <<"ỵ", <<"Ỵ">>>>, <<"ỷ", <<"Ỷ">>>>,
    <<"ỹ", <<"Ỹ">>>>, <<"ỻ", <<"Ỻ">>>>, <<"ỽ", <<"Ỽ">>>>,
    <<"ỿ", <<"Ỿ">>>>, <<"U+1F00", <<"U+1F08">>>>,
    <<"U+1F01", <<"U+1F09">>>>, <<"U+1F02", <<"U+1F0A">>>>,
    <<"U+1F03", <<"U+1F0B">>>>, <<"U+1F04", <<"U+1F0C">>>>,
    <<"U+1F05", <<"U+1F0D">>>>, <<"U+1F06", <<"U+1F0E">>>>,
    <<"U+1F07", <<"U+1F0F">>>>, <<"U+1F10", <<"U+1F18">>>>,
    <<"U+1F11", <<"U+1F19">>>>, <<"U+1F12", <<"U+1F1A">>>>,
    <<"U+1F13", <<"U+1F1B">>>>, <<"U+1F14", <<"U+1F1C">>>>,
    <<"U+1F15", <<"U+1F1D">>>>, <<"U+1F20", <<"U+1F28">>>>,
    <<"U+1F21", <<"U+1F29">>>>, <<"U+1F22", <<"U+1F2A">>>>,
    <<"U+1F23", <<"U+1F2B">>>>, <<"U+1F24", <<"U+1F2C">>>>,
    <<"U+1F25", <<"U+1F2D">>>>, <<"U+1F26", <<"U+1F2E">>>>,
    <<"U+1F27", <<"U+1F2F">>>>, <<"U+1F30", <<"U+1F38">>>>,
    <<"U+1F31", <<"U+1F39">>>>, <<"U+1F32", <<"U+1F3A">>>>,
    <<"U+1F33", <<"U+1F3B">>>>, <<"U+1F34", <<"U+1F3C">>>>,
    <<"U+1F35", <<"U+1F3D">>>>, <<"U+1F36", <<"U+1F3E">>>>,
    <<"U+1F37", <<"U+1F3F">>>>, <<"U+1F40", <<"U+1F48">>>>,
    <<"U+1F41", <<"U+1F49">>>>, <<"U+1F42", <<"U+1F4A">>>>,
    <<"U+1F43", <<"U+1F4B">>>>, <<"U+1F44", <<"U+1F4C">>>>,
    <<"U+1F45", <<"U+1F4D">>>>, <<"U+1F50", <<"Υ", "U+0313">>>>,
    <<"U+1F51", <<"U+1F59">>>>, <<"U+1F52", <<"Υ", "U+0313", "U+0300">>>>,
    <<"U+1F53", <<"U+1F5B">>>>, <<"U+1F54", <<"Υ", "U+0313", "U+0301">>>>,
    <<"U+1F55", <<"U+1F5D">>>>, <<"U+1F56", <<"Υ", "U+0313", "U+0342">>>>,
    <<"U+1F57", <<"U+1F5F">>>>, <<"U+1F60", <<"U+1F68">>>>,
    <<"U+1F61", <<"U+1F69">>>>, <<"U+1F62", <<"U+1F6A">>>>,
    <<"U+1F63", <<"U+1F6B">>>>, <<"U+1F64", <<"U+1F6C">>>>,
    <<"U+1F65", <<"U+1F6D">>>>, <<"U+1F66", <<"U+1F6E">>>>,
    <<"U+1F67", <<"U+1F6F">>>>, <<"U+1F70", <<"Ὰ">>>>,
    <<"U+1F71", <<"Ά">>>>, <<"U+1F72", <<"Ὲ">>>>,
    <<"U+1F73", <<"Έ">>>>, <<"U+1F74", <<"Ὴ">>>>,
    <<"U+1F75", <<"Ή">>>>, <<"U+1F76", <<"Ὶ">>>>,
    <<"U+1F77", <<"Ί">>>>, <<"U+1F78", <<"Ὸ">>>>,
    <<"U+1F79", <<"Ό">>>>, <<"U+1F7A", <<"Ὺ">>>>,
    <<"U+1F7B", <<"Ύ">>>>, <<"U+1F7C", <<"Ὼ">>>>,
    <<"U+1F7D", <<"Ώ">>>>, <<"ᾀ", <<"U+1F08", "Ι">>>>,
    <<"ᾁ", <<"U+1F09", "Ι">>>>, <<"ᾂ", <<"U+1F0A", "Ι">>>>,
    <<"ᾃ", <<"U+1F0B", "Ι">>>>, <<"ᾄ", <<"U+1F0C", "Ι">>>>,
    <<"ᾅ", <<"U+1F0D", "Ι">>>>, <<"ᾆ", <<"U+1F0E", "Ι">>>>,
    <<"ᾇ", <<"U+1F0F", "Ι">>>>, <<"ᾈ", <<"U+1F08", "Ι">>>>,
    <<"ᾉ", <<"U+1F09", "Ι">>>>, <<"ᾊ", <<"U+1F0A", "Ι">>>>,
    <<"ᾋ", <<"U+1F0B", "Ι">>>>, <<"ᾌ", <<"U+1F0C", "Ι">>>>,
    <<"ᾍ", <<"U+1F0D", "Ι">>>>, <<"ᾎ", <<"U+1F0E", "Ι">>>>,
    <<"ᾏ", <<"U+1F0F", "Ι">>>>, <<"ᾐ", <<"U+1F28", "Ι">>>>,
    <<"ᾑ", <<"U+1F29", "Ι">>>>, <<"ᾒ", <<"U+1F2A", "Ι">>>>,
    <<"ᾓ", <<"U+1F2B", "Ι">>>>, <<"ᾔ", <<"U+1F2C", "Ι">>>>,
    <<"ᾕ", <<"U+1F2D", "Ι">>>>, <<"ᾖ", <<"U+1F2E", "Ι">>>>,
    <<"ᾗ", <<"U+1F2F", "Ι">>>>, <<"ᾘ", <<"U+1F28", "Ι">>>>,
    <<"ᾙ", <<"U+1F29", "Ι">>>>, <<"ᾚ", <<"U+1F2A", "Ι">>>>,
    <<"ᾛ", <<"U+1F2B", "Ι">>>>, <<"ᾜ", <<"U+1F2C", "Ι">>>>,
    <<"ᾝ", <<"U+1F2D", "Ι">>>>, <<"ᾞ", <<"U+1F2E", "Ι">>>>,
    <<"ᾟ", <<"U+1F2F", "Ι">>>>, <<"ᾠ", <<"U+1F68", "Ι">>>>,
    <<"ᾡ", <<"U+1F69", "Ι">>>>, <<"ᾢ", <<"U+1F6A", "Ι">>>>,
    <<"ᾣ", <<"U+1F6B", "Ι">>>>, <<"ᾤ", <<"U+1F6C", "Ι">>>>,
    <<"ᾥ", <<"U+1F6D", "Ι">>>>, <<"ᾦ", <<"U+1F6E", "Ι">>>>,
    <<"ᾧ", <<"U+1F6F", "Ι">>>>, <<"ᾨ", <<"U+1F68", "Ι">>>>,
    <<"ᾩ", <<"U+1F69", "Ι">>>>, <<"ᾪ", <<"U+1F6A", "Ι">>>>,
    <<"ᾫ", <<"U+1F6B", "Ι">>>>, <<"ᾬ", <<"U+1F6C", "Ι">>>>,
    <<"ᾭ", <<"U+1F6D", "Ι">>>>, <<"ᾮ", <<"U+1F6E", "Ι">>>>,
    <<"ᾯ", <<"U+1F6F", "Ι">>>>, <<"ᾰ", <<"Ᾰ">>>>,
    <<"ᾱ", <<"Ᾱ">>>>, <<"ᾲ", <<"Ὰ", "Ι">>>>,
    <<"ᾳ", <<"Α", "Ι">>>>, <<"ᾴ", <<"Ά", "Ι">>>>,
    <<"ᾶ", <<"Α", "U+0342">>>>, <<"ᾷ", <<"Α", "U+0342", "Ι">>>>,
    <<"ᾼ", <<"Α", "Ι">>>>, <<"ι", <<"Ι">>>>,
    <<"ῂ", <<"Ὴ", "Ι">>>>, <<"ῃ", <<"Η", "Ι">>>>,
    <<"ῄ", <<"Ή", "Ι">>>>, <<"ῆ", <<"Η", "U+0342">>>>,
    <<"ῇ", <<"Η", "U+0342", "Ι">>>>, <<"ῌ", <<"Η", "Ι">>>>,
    <<"ῐ", <<"Ῐ">>>>, <<"ῑ", <<"Ῑ">>>>,
    <<"ῒ", <<"Ι", "U+0308", "U+0300">>>>,
    <<"ΐ", <<"Ι", "U+0308", "U+0301">>>>, <<"ῖ", <<"Ι", "U+0342">>>>,
    <<"ῗ", <<"Ι", "U+0308", "U+0342">>>>, <<"ῠ", <<"Ῠ">>>>,
    <<"ῡ", <<"Ῡ">>>>, <<"ῢ", <<"Υ", "U+0308", "U+0300">>>>,
    <<"ΰ", <<"Υ", "U+0308", "U+0301">>>>, <<"ῤ", <<"Ρ", "U+0313">>>>,
    <<"ῥ", <<"Ῥ">>>>, <<"ῦ", <<"Υ", "U+0342">>>>,
    <<"ῧ", <<"Υ", "U+0308", "U+0342">>>>, <<"ῲ", <<"Ὼ", "Ι">>>>,
    <<"ῳ", <<"Ω", "Ι">>>>, <<"ῴ", <<"Ώ", "Ι">>>>,
    <<"ῶ", <<"Ω", "U+0342">>>>, <<"ῷ", <<"Ω", "U+0342", "Ι">>>>,
    <<"ῼ", <<"Ω", "Ι">>>>, <<"U+214E", <<"U+2132">>>>,
    <<"U+2170", <<"U+2160">>>>, <<"U+2171", <<"U+2161">>>>,
    <<"U+2172", <<"U+2162">>>>, <<"U+2173", <<"U+2163">>>>,
    <<"U+2174", <<"U+2164">>>>, <<"U+2175", <<"U+2165">>>>,
    <<"U+2176", <<"U+2166">>>>, <<"U+2177", <<"U+2167">>>>,
    <<"U+2178", <<"U+2168">>>>, <<"U+2179", <<"U+2169">>>>,
    <<"U+217A", <<"U+216A">>>>, <<"U+217B", <<"U+216B">>>>,
    <<"U+217C", <<"U+216C">>>>, <<"U+217D", <<"U+216D">>>>,
    <<"U+217E", <<"U+216E">>>>, <<"U+217F", <<"U+216F">>>>,
    <<"ↄ", <<"Ↄ">>>>, <<"ⓐ", <<"Ⓐ">>>>, <<"ⓑ", <<"Ⓑ">>>>,
    <<"ⓒ", <<"Ⓒ">>>>, <<"ⓓ", <<"Ⓓ">>>>, <<"ⓔ", <<"Ⓔ">>>>,
    <<"ⓕ", <<"Ⓕ">>>>, <<"ⓖ", <<"Ⓖ">>>>, <<"ⓗ", <<"Ⓗ">>>>,
    <<"ⓘ", <<"Ⓘ">>>>, <<"ⓙ", <<"Ⓙ">>>>, <<"ⓚ", <<"Ⓚ">>>>,
    <<"ⓛ", <<"Ⓛ">>>>, <<"ⓜ", <<"Ⓜ">>>>, <<"ⓝ", <<"Ⓝ">>>>,
    <<"ⓞ", <<"Ⓞ">>>>, <<"ⓟ", <<"Ⓟ">>>>, <<"ⓠ", <<"Ⓠ">>>>,
    <<"ⓡ", <<"Ⓡ">>>>, <<"ⓢ", <<"Ⓢ">>>>, <<"ⓣ", <<"Ⓣ">>>>,
    <<"ⓤ", <<"Ⓤ">>>>, <<"ⓥ", <<"Ⓥ">>>>, <<"ⓦ", <<"Ⓦ">>>>,
    <<"ⓧ", <<"Ⓧ">>>>, <<"ⓨ", <<"Ⓨ">>>>, <<"ⓩ", <<"Ⓩ">>>>,
    <<"U+2C30", <<"U+2C00">>>>, <<"U+2C31", <<"U+2C01">>>>,
    <<"U+2C32", <<"U+2C02">>>>, <<"U+2C33", <<"U+2C03">>>>,
    <<"U+2C34", <<"U+2C04">>>>, <<"U+2C35", <<"U+2C05">>>>,
    <<"U+2C36", <<"U+2C06">>>>, <<"U+2C37", <<"U+2C07">>>>,
    <<"U+2C38", <<"U+2C08">>>>, <<"U+2C39", <<"U+2C09">>>>,
    <<"U+2C3A", <<"U+2C0A">>>>, <<"U+2C3B", <<"U+2C0B">>>>,
    <<"U+2C3C", <<"U+2C0C">>>>, <<"U+2C3D", <<"U+2C0D">>>>,
    <<"U+2C3E", <<"U+2C0E">>>>, <<"U+2C3F", <<"U+2C0F">>>>,
    <<"U+2C40", <<"U+2C10">>>>, <<"U+2C41", <<"U+2C11">>>>,
    <<"U+2C42", <<"U+2C12">>>>, <<"U+2C43", <<"U+2C13">>>>,
    <<"U+2C44", <<"U+2C14">>>>, <<"U+2C45", <<"U+2C15">>>>,
    <<"U+2C46", <<"U+2C16">>>>, <<"U+2C47", <<"U+2C17">>>>,
    <<"U+2C48", <<"U+2C18">>>>, <<"U+2C49", <<"U+2C19">>>>,
    <<"U+2C4A", <<"U+2C1A">>>>, <<"U+2C4B", <<"U+2C1B">>>>,
    <<"U+2C4C", <<"U+2C1C">>>>, <<"U+2C4D", <<"U+2C1D">>>>,
    <<"U+2C4E", <<"U+2C1E">>>>, <<"U+2C4F", <<"U+2C1F">>>>,
    <<"U+2C50", <<"U+2C20">>>>, <<"U+2C51", <<"U+2C21">>>>,
    <<"U+2C52", <<"U+2C22">>>>, <<"U+2C53", <<"U+2C23">>>>,
    <<"U+2C54", <<"U+2C24">>>>, <<"U+2C55", <<"U+2C25">>>>,
    <<"U+2C56", <<"U+2C26">>>>, <<"U+2C57", <<"U+2C27">>>>,
    <<"U+2C58", <<"U+2C28">>>>, <<"U+2C59", <<"U+2C29">>>>,
    <<"U+2C5A", <<"U+2C2A">>>>, <<"U+2C5B", <<"U+2C2B">>>>,
    <<"U+2C5C", <<"U+2C2C">>>>, <<"U+2C5D", <<"U+2C2D">>>>,
    <<"U+2C5E", <<"U+2C2E">>>>, <<"U+2C5F", <<"U+2C2F">>>>,
    <<"U+2C61", <<"U+2C60">>>>, <<"U+2C65", <<"U+023A">>>>,
    <<"U+2C66", <<"U+023E">>>>, <<"U+2C68", <<"U+2C67">>>>,
    <<"U+2C6A", <<"U+2C69">>>>, <<"U+2C6C", <<"U+2C6B">>>>,
    <<"U+2C73", <<"U+2C72">>>>, <<"U+2C76", <<"U+2C75">>>>,
    <<"ⲁ", <<"Ⲁ">>>>, <<"ⲃ", <<"Ⲃ">>>>, <<"ⲅ", <<"Ⲅ">>>>,
    <<"ⲇ", <<"Ⲇ">>>>, <<"ⲉ", <<"Ⲉ">>>>, <<"ⲋ", <<"Ⲋ">>>>,
    <<"ⲍ", <<"Ⲍ">>>>, <<"ⲏ", <<"Ⲏ">>>>, <<"ⲑ", <<"Ⲑ">>>>,
    <<"ⲓ", <<"Ⲓ">>>>, <<"ⲕ", <<"Ⲕ">>>>, <<"ⲗ", <<"Ⲗ">>>>,
    <<"ⲙ", <<"Ⲙ">>>>, <<"ⲛ", <<"Ⲛ">>>>, <<"ⲝ", <<"Ⲝ">>>>,
    <<"ⲟ", <<"Ⲟ">>>>, <<"ⲡ", <<"Ⲡ">>>>, <<"ⲣ", <<"Ⲣ">>>>,
    <<"ⲥ", <<"Ⲥ">>>>, <<"ⲧ", <<"Ⲧ">>>>, <<"ⲩ", <<"Ⲩ">>>>,
    <<"ⲫ", <<"Ⲫ">>>>, <<"ⲭ", <<"Ⲭ">>>>, <<"ⲯ", <<"Ⲯ">>>>,
    <<"ⲱ", <<"Ⲱ">>>>, <<"ⲳ", <<"Ⲳ">>>>, <<"ⲵ", <<"Ⲵ">>>>,
    <<"ⲷ", <<"Ⲷ">>>>, <<"ⲹ", <<"Ⲹ">>>>, <<"ⲻ", <<"Ⲻ">>>>,
    <<"ⲽ", <<"Ⲽ">>>>, <<"ⲿ", <<"Ⲿ">>>>, <<"ⳁ", <<"Ⳁ">>>>,
    <<"ⳃ", <<"Ⳃ">>>>, <<"ⳅ", <<"Ⳅ">>>>, <<"ⳇ", <<"Ⳇ">>>>,
    <<"ⳉ", <<"Ⳉ">>>>, <<"ⳋ", <<"Ⳋ">>>>, <<"ⳍ", <<"Ⳍ">>>>,
    <<"ⳏ", <<"Ⳏ">>>>, <<"ⳑ", <<"Ⳑ">>>>, <<"ⳓ", <<"Ⳓ">>>>,
    <<"ⳕ", <<"Ⳕ">>>>, <<"ⳗ", <<"Ⳗ">>>>, <<"ⳙ", <<"Ⳙ">>>>,
    <<"ⳛ", <<"Ⳛ">>>>, <<"ⳝ", <<"Ⳝ">>>>, <<"ⳟ", <<"Ⳟ">>>>,
    <<"ⳡ", <<"Ⳡ">>>>, <<"ⳣ", <<"Ⳣ">>>>, <<"ⳬ", <<"Ⳬ">>>>,
    <<"ⳮ", <<"Ⳮ">>>>, <<"ⳳ", <<"Ⳳ">>>>, <<"U+2D00", <<"Ⴀ">>>>,
    <<"U+2D01", <<"Ⴁ">>>>, <<"U+2D02", <<"Ⴂ">>>>,
    <<"U+2D03", <<"Ⴃ">>>>, <<"U+2D04", <<"Ⴄ">>>>,
    <<"U+2D05", <<"Ⴅ">>>>, <<"U+2D06", <<"Ⴆ">>>>,
    <<"U+2D07", <<"Ⴇ">>>>, <<"U+2D08", <<"Ⴈ">>>>,
    <<"U+2D09", <<"Ⴉ">>>>, <<"U+2D0A", <<"Ⴊ">>>>,
    <<"U+2D0B", <<"Ⴋ">>>>, <<"U+2D0C", <<"Ⴌ">>>>,
    <<"U+2D0D", <<"Ⴍ">>>>, <<"U+2D0E", <<"Ⴎ">>>>,
    <<"U+2D0F", <<"Ⴏ">>>>, <<"U+2D10", <<"Ⴐ">>>>,
    <<"U+2D11", <<"Ⴑ">>>>, <<"U+2D12", <<"Ⴒ">>>>,
    <<"U+2D13", <<"Ⴓ">>>>, <<"U+2D14", <<"Ⴔ">>>>,
    <<"U+2D15", <<"Ⴕ">>>>, <<"U+2D16", <<"Ⴖ">>>>,
    <<"U+2D17", <<"Ⴗ">>>>, <<"U+2D18", <<"Ⴘ">>>>,
    <<"U+2D19", <<"Ⴙ">>>>, <<"U+2D1A", <<"Ⴚ">>>>,
    <<"U+2D1B", <<"Ⴛ">>>>, <<"U+2D1C", <<"Ⴜ">>>>,
    <<"U+2D1D", <<"Ⴝ">>>>, <<"U+2D1E", <<"Ⴞ">>>>,
    <<"U+2D1F", <<"Ⴟ">>>>, <<"U+2D20", <<"Ⴠ">>>>,
    <<"U+2D21", <<"Ⴡ">>>>, <<"U+2D22", <<"Ⴢ">>>>,
    <<"U+2D23", <<"Ⴣ">>>>, <<"U+2D24", <<"Ⴤ">>>>,
    <<"U+2D25", <<"Ⴥ">>>>, <<"U+2D27", <<"Ⴧ">>>>,
    <<"U+2D2D", <<"Ⴭ">>>>, <<"U+A641", <<"U+A640">>>>,
    <<"U+A643", <<"U+A642">>>>, <<"U+A645", <<"U+A644">>>>,
    <<"U+A647", <<"U+A646">>>>, <<"U+A649", <<"U+A648">>>>,
    <<"U+A64B", <<"U+A64A">>>>, <<"U+A64D", <<"U+A64C">>>>,
    <<"U+A64F", <<"U+A64E">>>>, <<"U+A651", <<"U+A650">>>>,
    <<"U+A653", <<"U+A652">>>>, <<"U+A655", <<"U+A654">>>>,
    <<"U+A657", <<"U+A656">>>>, <<"U+A659", <<"U+A658">>>>,
    <<"U+A65B", <<"U+A65A">>>>, <<"U+A65D", <<"U+A65C">>>>,
    <<"U+A65F", <<"U+A65E">>>>, <<"U+A661", <<"U+A660">>>>,
    <<"U+A663", <<"U+A662">>>>, <<"U+A665", <<"U+A664">>>>,
    <<"U+A667", <<"U+A666">>>>, <<"U+A669", <<"U+A668">>>>,
    <<"U+A66B", <<"U+A66A">>>>, <<"U+A66D", <<"U+A66C">>>>,
    <<"ꚁ", <<"Ꚁ">>>>, <<"ꚃ", <<"Ꚃ">>>>, <<"ꚅ", <<"Ꚅ">>>>,
    <<"ꚇ", <<"Ꚇ">>>>, <<"ꚉ", <<"Ꚉ">>>>, <<"ꚋ", <<"Ꚋ">>>>,
    <<"ꚍ", <<"Ꚍ">>>>, <<"ꚏ", <<"Ꚏ">>>>, <<"ꚑ", <<"Ꚑ">>>>,
    <<"ꚓ", <<"Ꚓ">>>>, <<"ꚕ", <<"Ꚕ">>>>, <<"ꚗ", <<"Ꚗ">>>>,
    <<"ꚙ", <<"Ꚙ">>>>, <<"ꚛ", <<"Ꚛ">>>>, <<"U+A723", <<"U+A722">>>>,
    <<"U+A725", <<"U+A724">>>>, <<"U+A727", <<"U+A726">>>>,
    <<"U+A729", <<"U+A728">>>>, <<"U+A72B", <<"U+A72A">>>>,
    <<"U+A72D", <<"U+A72C">>>>, <<"U+A72F", <<"U+A72E">>>>,
    <<"U+A733", <<"U+A732">>>>, <<"U+A735", <<"U+A734">>>>,
    <<"U+A737", <<"U+A736">>>>, <<"U+A739", <<"U+A738">>>>,
    <<"U+A73B", <<"U+A73A">>>>, <<"U+A73D", <<"U+A73C">>>>,
    <<"U+A73F", <<"U+A73E">>>>, <<"U+A741", <<"U+A740">>>>,
    <<"U+A743", <<"U+A742">>>>, <<"U+A745", <<"U+A744">>>>,
    <<"U+A747", <<"U+A746">>>>, <<"U+A749", <<"U+A748">>>>,
    <<"U+A74B", <<"U+A74A">>>>, <<"U+A74D", <<"U+A74C">>>>,
    <<"U+A74F", <<"U+A74E">>>>, <<"U+A751", <<"U+A750">>>>,
    <<"U+A753", <<"U+A752">>>>, <<"U+A755", <<"U+A754">>>>,
    <<"U+A757", <<"U+A756">>>>, <<"U+A759", <<"U+A758">>>>,
    <<"U+A75B", <<"U+A75A">>>>, <<"U+A75D", <<"U+A75C">>>>,
    <<"U+A75F", <<"U+A75E">>>>, <<"U+A761", <<"U+A760">>>>,
    <<"U+A763", <<"U+A762">>>>, <<"U+A765", <<"U+A764">>>>,
    <<"U+A767", <<"U+A766">>>>, <<"U+A769", <<"U+A768">>>>,
    <<"U+A76B", <<"U+A76A">>>>, <<"U+A76D", <<"U+A76C">>>>,
    <<"U+A76F", <<"U+A76E">>>>, <<"U+A77A", <<"U+A779">>>>,
    <<"U+A77C", <<"U+A77B">>>>, <<"U+A77F", <<"U+A77E">>>>,
    <<"ꞁ", <<"Ꞁ">>>>, <<"ꞃ", <<"Ꞃ">>>>, <<"ꞅ", <<"Ꞅ">>>>,
    <<"ꞇ", <<"Ꞇ">>>>, <<"ꞌ", <<"Ꞌ">>>>, <<"ꞑ", <<"Ꞑ">>>>,
    <<"ꞓ", <<"Ꞓ">>>>, <<"ꞔ", <<"Ꞔ">>>>, <<"ꞗ", <<"Ꞗ">>>>,
    <<"ꞙ", <<"Ꞙ">>>>, <<"ꞛ", <<"Ꞛ">>>>, <<"ꞝ", <<"Ꞝ">>>>,
    <<"ꞟ", <<"Ꞟ">>>>, <<"ꞡ", <<"Ꞡ">>>>, <<"ꞣ", <<"Ꞣ">>>>,
    <<"ꞥ", <<"Ꞥ">>>>, <<"ꞧ", <<"Ꞧ">>>>, <<"ꞩ", <<"Ꞩ">>>>,
    <<"ꞵ", <<"Ꞵ">>>>, <<"ꞷ", <<"Ꞷ">>>>, <<"ꞹ", <<"Ꞹ">>>>,
    <<"ꞻ", <<"Ꞻ">>>>, <<"ꞽ", <<"Ꞽ">>>>, <<"ꞿ", <<"Ꞿ">>>>,
    <<"ꟁ", <<"Ꟁ">>>>, <<"ꟃ", <<"Ꟃ">>>>, <<"ꟈ", <<"Ꟈ">>>>,
    <<"ꟊ", <<"Ꟊ">>>>, <<"ꟑ", <<"Ꟑ">>>>, <<"ꟗ", <<"Ꟗ">>>>,
    <<"ꟙ", <<"Ꟙ">>>>, <<"ꟶ", <<"Ꟶ">>>>, <<"U+AB53", <<"Ꭓ">>>>,
    <<"U+AB70", <<"Ꭰ">>>>, <<"U+AB71", <<"Ꭱ">>>>,
    <<"U+AB72", <<"Ꭲ">>>>, <<"U+AB73", <<"Ꭳ">>>>,
    <<"U+AB74", <<"Ꭴ">>>>, <<"U+AB75", <<"Ꭵ">>>>,
    <<"U+AB76", <<"Ꭶ">>>>, <<"U+AB77", <<"Ꭷ">>>>,
    <<"U+AB78", <<"Ꭸ">>>>, <<"U+AB79", <<"Ꭹ">>>>,
    <<"U+AB7A", <<"Ꭺ">>>>, <<"U+AB7B", <<"Ꭻ">>>>,
    <<"U+AB7C", <<"Ꭼ">>>>, <<"U+AB7D", <<"Ꭽ">>>>,
    <<"U+AB7E", <<"Ꭾ">>>>, <<"U+AB7F", <<"Ꭿ">>>>, <<"ꮀ", <<"Ꮀ">>>>,
    <<"ꮁ", <<"Ꮁ">>>>, <<"ꮂ", <<"Ꮂ">>>>, <<"ꮃ", <<"Ꮃ">>>>,
    <<"ꮄ", <<"Ꮄ">>>>, <<"ꮅ", <<"Ꮅ">>>>, <<"ꮆ", <<"Ꮆ">>>>,
    <<"ꮇ", <<"Ꮇ">>>>, <<"ꮈ", <<"Ꮈ">>>>, <<"ꮉ", <<"Ꮉ">>>>,
    <<"ꮊ", <<"Ꮊ">>>>, <<"ꮋ", <<"Ꮋ">>>>, <<"ꮌ", <<"Ꮌ">>>>,
    <<"ꮍ", <<"Ꮍ">>>>, <<"ꮎ", <<"Ꮎ">>>>, <<"ꮏ", <<"Ꮏ">>>>,
    <<"ꮐ", <<"Ꮐ">>>>, <<"ꮑ", <<"Ꮑ">>>>, <<"ꮒ", <<"Ꮒ">>>>,
    <<"ꮓ", <<"Ꮓ">>>>, <<"ꮔ", <<"Ꮔ">>>>, <<"ꮕ", <<"Ꮕ">>>>,
    <<"ꮖ", <<"Ꮖ">>>>, <<"ꮗ", <<"Ꮗ">>>>, <<"ꮘ", <<"Ꮘ">>>>,
    <<"ꮙ", <<"Ꮙ">>>>, <<"ꮚ", <<"Ꮚ">>>>, <<"ꮛ", <<"Ꮛ">>>>,
    <<"ꮜ", <<"Ꮜ">>>>, <<"ꮝ", <<"Ꮝ">>>>, <<"ꮞ", <<"Ꮞ">>>>,
    <<"ꮟ", <<"Ꮟ">>>>, <<"ꮠ", <<"Ꮠ">>>>, <<"ꮡ", <<"Ꮡ">>>>,
    <<"ꮢ", <<"Ꮢ">>>>, <<"ꮣ", <<"Ꮣ">>>>, <<"ꮤ", <<"Ꮤ">>>>,
    <<"ꮥ", <<"Ꮥ">>>>, <<"ꮦ", <<"Ꮦ">>>>, <<"ꮧ", <<"Ꮧ">>>>,
    <<"ꮨ", <<"Ꮨ">>>>, <<"ꮩ", <<"Ꮩ">>>>, <<"ꮪ", <<"Ꮪ">>>>,
    <<"ꮫ", <<"Ꮫ">>>>, <<"ꮬ", <<"Ꮬ">>>>, <<"ꮭ", <<"Ꮭ">>>>,
    <<"ꮮ", <<"Ꮮ">>>>, <<"ꮯ", <<"Ꮯ">>>>, <<"ꮰ", <<"Ꮰ">>>>,
    <<"ꮱ", <<"Ꮱ">>>>, <<"ꮲ", <<"Ꮲ">>>>, <<"ꮳ", <<"Ꮳ">>>>,
    <<"ꮴ", <<"Ꮴ">>>>, <<"ꮵ", <<"Ꮵ">>>>, <<"ꮶ", <<"Ꮶ">>>>,
    <<"ꮷ", <<"Ꮷ">>>>, <<"ꮸ", <<"Ꮸ">>>>, <<"ꮹ", <<"Ꮹ">>>>,
    <<"ꮺ", <<"Ꮺ">>>>, <<"ꮻ", <<"Ꮻ">>>>, <<"ꮼ", <<"Ꮼ">>>>,
    <<"ꮽ", <<"Ꮽ">>>>, <<"ꮾ", <<"Ꮾ">>>>, <<"ꮿ", <<"Ꮿ">>>>,
    <<"U+FB00", <<"F", "F">>>>, <<"U+FB01", <<"F", "I">>>>,
    <<"U+FB02", <<"F", "L">>>>, <<"U+FB03", <<"F", "F", "I">>>>,
    <<"U+FB04", <<"F", "F", "L">>>>, <<"U+FB05", <<"S", "T">>>>,
    <<"U+FB06", <<"S", "T">>>>, <<"U+FB13", <<"U+0544", "U+0546">>>>,
    <<"U+FB14", <<"U+0544", "U+0535">>>>,
    <<"U+FB15", <<"U+0544", "U+053B">>>>,
    <<"U+FB16", <<"U+054E", "U+0546">>>>,
    <<"U+FB17", <<"U+0544", "U+053D">>>>, <<"U+FF41", <<"U+FF21">>>>,
    <<"U+FF42", <<"U+FF22">>>>, <<"U+FF43", <<"U+FF23">>>>,
    <<"U+FF44", <<"U+FF24">>>>, <<"U+FF45", <<"U+FF25">>>>,
    <<"U+FF46", <<"U+FF26">>>>, <<"U+FF47", <<"U+FF27">>>>,
    <<"U+FF48", <<"U+FF28">>>>, <<"U+FF49", <<"U+FF29">>>>,
    <<"U+FF4A", <<"U+FF2A">>>>, <<"U+FF4B", <<"U+FF2B">>>>,
    <<"U+FF4C", <<"U+FF2C">>>>, <<"U+FF4D", <<"U+FF2D">>>>,
    <<"U+FF4E", <<"U+FF2E">>>>, <<"U+FF4F", <<"U+FF2F">>>>,
    <<"U+FF50", <<"U+FF30">>>>, <<"U+FF51", <<"U+FF31">>>>,
    <<"U+FF52", <<"U+FF32">>>>, <<"U+FF53", <<"U+FF33">>>>,
    <<"U+FF54", <<"U+FF34">>>>, <<"U+FF55", <<"U+FF35">>>>,
    <<"U+FF56", <<"U+FF36">>>>, <<"U+FF57", <<"U+FF37">>>>,
    <<"U+FF58", <<"U+FF38">>>>, <<"U+FF59", <<"U+FF39">>>>,
    <<"U+FF5A", <<"U+FF3A">>>>, <<"U+10428", <<"U+10400">>>>,
    <<"U+10429", <<"U+10401">>>>, <<"U+1042A", <<"U+10402">>>>,
    <<"U+1042B", <<"U+10403">>>>, <<"U+1042C", <<"U+10404">>>>,
    <<"U+1042D", <<"U+10405">>>>, <<"U+1042E", <<"U+10406">>>>,
    <<"U+1042F", <<"U+10407">>>>, <<"U+10430", <<"U+10408">>>>,
    <<"U+10431", <<"U+10409">>>>, <<"U+10432", <<"U+1040A">>>>,
    <<"U+10433", <<"U+1040B">>>>, <<"U+10434", <<"U+1040C">>>>,
    <<"U+10435", <<"U+1040D">>>>, <<"U+10436", <<"U+1040E">>>>,
    <<"U+10437", <<"U+1040F">>>>, <<"U+10438", <<"U+10410">>>>,
    <<"U+10439", <<"U+10411">>>>, <<"U+1043A", <<"U+10412">>>>,
    <<"U+1043B", <<"U+10413">>>>, <<"U+1043C", <<"U+10414">>>>,
    <<"U+1043D", <<"U+10415">>>>, <<"U+1043E", <<"U+10416">>>>,
    <<"U+1043F", <<"U+10417">>>>, <<"U+10440", <<"U+10418">>>>,
    <<"U+10441", <<"U+10419">>>>, <<"U+10442", <<"U+1041A">>>>,
    <<"U+10443", <<"U+1041B">>>>, <<"U+10444", <<"U+1041C">>>>,
    <<"U+10445", <<"U+1041D">>>>, <<"U+10446", <<"U+1041E">>>>,
    <<"U+10447", <<"U+1041F">>>>, <<"U+10448", <<"U+10420">>>>,
    <<"U+10449", <<"U+10421">>>>, <<"U+1044A", <<"U+10422">>>>,
    <<"U+1044B", <<"U+10423">>>>, <<"U+1044C", <<"U+10424">>>>,
    <<"U+1044D", <<"U+10425">>>>, <<"U+1044E", <<"U+10426">>>>,
    <<"U+1044F", <<"U+10427">>>>, <<"U+104D8", <<"U+104B0">>>>,
    <<"U+104D9", <<"U+104B1">>>>, <<"U+104DA", <<"U+104B2">>>>,
    <<"U+104DB", <<"U+104B3">>>>, <<"U+104DC", <<"U+104B4">>>>,
    <<"U+104DD", <<"U+104B5">>>>, <<"U+104DE", <<"U+104B6">>>>,
    <<"U+104DF", <<"U+104B7">>>>, <<"U+104E0", <<"U+104B8">>>>,
    <<"U+104E1", <<"U+104B9">>>>, <<"U+104E2", <<"U+104BA">>>>,
    <<"U+104E3", <<"U+104BB">>>>, <<"U+104E4", <<"U+104BC">>>>,
    <<"U+104E5", <<"U+104BD">>>>, <<"U+104E6", <<"U+104BE">>>>,
    <<"U+104E7", <<"U+104BF">>>>, <<"U+104E8", <<"U+104C0">>>>,
    <<"U+104E9", <<"U+104C1">>>>, <<"U+104EA", <<"U+104C2">>>>,
    <<"U+104EB", <<"U+104C3">>>>, <<"U+104EC", <<"U+104C4">>>>,
    <<"U+104ED", <<"U+104C5">>>>, <<"U+104EE", <<"U+104C6">>>>,
    <<"U+104EF", <<"U+104C7">>>>, <<"U+104F0", <<"U+104C8">>>>,
    <<"U+104F1", <<"U+104C9">>>>, <<"U+104F2", <<"U+104CA">>>>,
    <<"U+104F3", <<"U+104CB">>>>, <<"U+104F4", <<"U+104CC">>>>,
    <<"U+104F5", <<"U+104CD">>>>, <<"U+104F6", <<"U+104CE">>>>,
    <<"U+104F7", <<"U+104CF">>>>, <<"U+104F8", <<"U+104D0">>>>,
    <<"U+104F9", <<"U+104D1">>>>, <<"U+104FA", <<"U+104D2">>>>,
    <<"U+104FB", <<"U+104D3">>>>, <<"U+10597", <<"U+10570">>>>,
    <<"U+10598", <<"U+10571">>>>, <<"U+10599", <<"U+10572">>>>,
    <<"U+1059A", <<"U+10573">>>>, <<"U+1059B", <<"U+10574">>>>,
    <<"U+1059C", <<"U+10575">>>>, <<"U+1059D", <<"U+10576">>>>,
    <<"U+1059E", <<"U+10577">>>>, <<"U+1059F", <<"U+10578">>>>,
    <<"U+105A0", <<"U+10579">>>>, <<"U+105A1", <<"U+1057A">>>>,
    <<"U+105A3", <<"U+1057C">>>>, <<"U+105A4", <<"U+1057D">>>>,
    <<"U+105A5", <<"U+1057E">>>>, <<"U+105A6", <<"U+1057F">>>>,
    <<"U+105A7", <<"U+10580">>>>, <<"U+105A8", <<"U+10581">>>>,
    <<"U+105A9", <<"U+10582">>>>, <<"U+105AA", <<"U+10583">>>>,
    <<"U+105AB", <<"U+10584">>>>, <<"U+105AC", <<"U+10585">>>>,
    <<"U+105AD", <<"U+10586">>>>, <<"U+105AE", <<"U+10587">>>>,
    <<"U+105AF", <<"U+10588">>>>, <<"U+105B0", <<"U+10589">>>>,
    <<"U+105B1", <<"U+1058A">>>>, <<"U+105B3", <<"U+1058C">>>>,
    <<"U+105B4", <<"U+1058D">>>>, <<"U+105B5", <<"U+1058E">>>>,
    <<"U+105B6", <<"U+1058F">>>>, <<"U+105B7", <<"U+10590">>>>,
    <<"U+105B8", <<"U+10591">>>>, <<"U+105B9", <<"U+10592">>>>,
    <<"U+105BB", <<"U+10594">>>>, <<"U+105BC", <<"U+10595">>>>,
    <<"U+10CC0", <<"U+10C80">>>>, <<"U+10CC1", <<"U+10C81">>>>,
    <<"U+10CC2", <<"U+10C82">>>>, <<"U+10CC3", <<"U+10C83">>>>,
    <<"U+10CC4", <<"U+10C84">>>>, <<"U+10CC5", <<"U+10C85">>>>,
    <<"U+10CC6", <<"U+10C86">>>>, <<"U+10CC7", <<"U+10C87">>>>,
    <<"U+10CC8", <<"U+10C88">>>>, <<"U+10CC9", <<"U+10C89">>>>,
    <<"U+10CCA", <<"U+10C8A">>>>, <<"U+10CCB", <<"U+10C8B">>>>,
    <<"U+10CCC", <<"U+10C8C">>>>, <<"U+10CCD", <<"U+10C8D">>>>,
    <<"U+10CCE", <<"U+10C8E">>>>, <<"U+10CCF", <<"U+10C8F">>>>,
    <<"U+10CD0", <<"U+10C90">>>>, <<"U+10CD1", <<"U+10C91">>>>,
    <<"U+10CD2", <<"U+10C92">>>>, <<"U+10CD3", <<"U+10C93">>>>,
    <<"U+10CD4", <<"U+10C94">>>>, <<"U+10CD5", <<"U+10C95">>>>,
    <<"U+10CD6", <<"U+10C96">>>>, <<"U+10CD7", <<"U+10C97">>>>,
    <<"U+10CD8", <<"U+10C98">>>>, <<"U+10CD9", <<"U+10C99">>>>,
    <<"U+10CDA", <<"U+10C9A">>>>, <<"U+10CDB", <<"U+10C9B">>>>,
    <<"U+10CDC", <<"U+10C9C">>>>, <<"U+10CDD", <<"U+10C9D">>>>,
    <<"U+10CDE", <<"U+10C9E">>>>, <<"U+10CDF", <<"U+10C9F">>>>,
    <<"U+10CE0", <<"U+10CA0">>>>, <<"U+10CE1", <<"U+10CA1">>>>,
    <<"U+10CE2", <<"U+10CA2">>>>, <<"U+10CE3", <<"U+10CA3">>>>,
    <<"U+10CE4", <<"U+10CA4">>>>, <<"U+10CE5", <<"U+10CA5">>>>,
    <<"U+10CE6", <<"U+10CA6">>>>, <<"U+10CE7", <<"U+10CA7">>>>,
    <<"U+10CE8", <<"U+10CA8">>>>, <<"U+10CE9", <<"U+10CA9">>>>,
    <<"U+10CEA", <<"U+10CAA">>>>, <<"U+10CEB", <<"U+10CAB">>>>,
    <<"U+10CEC", <<"U+10CAC">>>>, <<"U+10CED", <<"U+10CAD">>>>,
    <<"U+10CEE", <<"U+10CAE">>>>, <<"U+10CEF", <<"U+10CAF">>>>,
    <<"U+10CF0", <<"U+10CB0">>>>, <<"U+10CF1", <<"U+10CB1">>>>,
    <<"U+10CF2", <<"U+10CB2">>>>, <<"U+118C0", <<"U+118A0">>>>,
    <<"U+118C1", <<"U+118A1">>>>, <<"U+118C2", <<"U+118A2">>>>,
    <<"U+118C3", <<"U+118A3">>>>, <<"U+118C4", <<"U+118A4">>>>,
    <<"U+118C5", <<"U+118A5">>>>, <<"U+118C6", <<"U+118A6">>>>,
    <<"U+118C7", <<"U+118A7">>>>, <<"U+118C8", <<"U+118A8">>>>,
    <<"U+118C9", <<"U+118A9">>>>, <<"U+118CA", <<"U+118AA">>>>,
    <<"U+118CB", <<"U+118AB">>>>, <<"U+118CC", <<"U+118AC">>>>,
    <<"U+118CD", <<"U+118AD">>>>, <<"U+118CE", <<"U+118AE">>>>,
    <<"U+118CF", <<"U+118AF">>>>, <<"U+118D0", <<"U+118B0">>>>,
    <<"U+118D1", <<"U+118B1">>>>, <<"U+118D2", <<"U+118B2">>>>,
    <<"U+118D3", <<"U+118B3">>>>, <<"U+118D4", <<"U+118B4">>>>,
    <<"U+118D5", <<"U+118B5">>>>, <<"U+118D6", <<"U+118B6">>>>,
    <<"U+118D7", <<"U+118B7">>>>, <<"U+118D8", <<"U+118B8">>>>,
    <<"U+118D9", <<"U+118B9">>>>, <<"U+118DA", <<"U+118BA">>>>,
    <<"U+118DB", <<"U+118BB">>>>, <<"U+118DC", <<"U+118BC">>>>,
    <<"U+118DD", <<"U+118BD">>>>, <<"U+118DE", <<"U+118BE">>>>,
    <<"U+118DF", <<"U+118BF">>>>, <<"U+16E60", <<"U+16E40">>>>,
    <<"U+16E61", <<"U+16E41">>>>, <<"U+16E62", <<"U+16E42">>>>,
    <<"U+16E63", <<"U+16E43">>>>, <<"U+16E64", <<"U+16E44">>>>,
    <<"U+16E65", <<"U+16E45">>>>, <<"U+16E66", <<"U+16E46">>>>,
    <<"U+16E67", <<"U+16E47">>>>, <<"U+16E68", <<"U+16E48">>>>,
    <<"U+16E69", <<"U+16E49">>>>, <<"U+16E6A", <<"U+16E4A">>>>,
    <<"U+16E6B", <<"U+16E4B">>>>, <<"U+16E6C", <<"U+16E4C">>>>,
    <<"U+16E6D", <<"U+16E4D">>>>, <<"U+16E6E", <<"U+16E4E">>>>,
    <<"U+16E6F", <<"U+16E4F">>>>, <<"U+16E70", <<"U+16E50">>>>,
    <<"U+16E71", <<"U+16E51">>>>, <<"U+16E72", <<"U+16E52">>>>,
    <<"U+16E73", <<"U+16E53">>>>, <<"U+16E74", <<"U+16E54">>>>,
    <<"U+16E75", <<"U+16E55">>>>, <<"U+16E76", <<"U+16E56">>>>,
    <<"U+16E77", <<"U+16E57">>>>, <<"U+16E78", <<"U+16E58">>>>,
    <<"U+16E79", <<"U+16E59">>>>, <<"U+16E7A", <<"U+16E5A">>>>,
    <<"U+16E7B", <<"U+16E5B">>>>, <<"U+16E7C", <<"U+16E5C">>>>,
    <<"U+16E7D", <<"U+16E5D">>>>, <<"U+16E7E", <<"U+16E5E">>>>,
    <<"U+16E7F", <<"U+16E5F">>>>, <<"U+1E922", <<"U+1E900">>>>,
    <<"U+1E923", <<"U+1E901">>>>, <<"U+1E924", <<"U+1E902">>>>,
    <<"U+1E925", <<"U+1E903">>>>, <<"U+1E926", <<"U+1E904">>>>,
    <<"U+1E927", <<"U+1E905">>>>, <<"U+1E928", <<"U+1E906">>>>,
    <<"U+1E929", <<"U+1E907">>>>, <<"U+1E92A", <<"U+1E908">>>>,
    <<"U+1E92B", <<"U+1E909">>>>, <<"U+1E92C", <<"U+1E90A">>>>,
    <<"U+1E92D", <<"U+1E90B">>>>, <<"U+1E92E", <<"U+1E90C">>>>,
    <<"U+1E92F", <<"U+1E90D">>>>, <<"U+1E930", <<"U+1E90E">>>>,
    <<"U+1E931", <<"U+1E90F">>>>, <<"U+1E932", <<"U+1E910">>>>,
    <<"U+1E933", <<"U+1E911">>>>, <<"U+1E934", <<"U+1E912">>>>,
    <<"U+1E935", <<"U+1E913">>>>, <<"U+1E936", <<"U+1E914">>>>,
    <<"U+1E937", <<"U+1E915">>>>, <<"U+1E938", <<"U+1E916">>>>,
    <<"U+1E939", <<"U+1E917">>>>, <<"U+1E93A", <<"U+1E918">>>>,
    <<"U+1E93B", <<"U+1E919">>>>, <<"U+1E93C", <<"U+1E91A">>>>,
    <<"U+1E93D", <<"U+1E91B">>>>, <<"U+1E93E", <<"U+1E91C">>>>,
    <<"U+1E93F", <<"U+1E91D">>>>, <<"U+1E940", <<"U+1E91E">>>>,
    <<"U+1E941", <<"U+1E91F">>>>, <<"U+1E942", <<"U+1E920">>>>,
    <<"U+1E943", <<"U+1E921">>>>
>>

\* the characters str.upper() changes
UpperKeys == {LowerCase[i] : i \in 1..26} \cup
             {UpperMap[i][1] : i \in 1..Len(UpperMap)}

\* str.upper() of each character it changes: a-z to A-Z, the others by
\* UpperMap
UpperIndex == [c \in UpperKeys |->
                 IF \E i \in 1..26 : LowerCase[i] = c
                 THEN <<UpperCase[CHOOSE i \in 1..26 : LowerCase[i] = c]>>
                 ELSE UpperMap[CHOOSE i \in 1..Len(UpperMap) :
                                  UpperMap[i][1] = c][2]]

\* str.upper(), one character: the text that replaces it
upper_char(c) == IF c \in UpperKeys THEN UpperIndex[c] ELSE <<c>>

RECURSIVE Flatten(_)
\* the texts of a sequence joined in order
Flatten(parts) ==
    IF parts = <<>> THEN <<>> ELSE Head(parts) \o Flatten(Tail(parts))

\* str.upper(): the upper-case texts of the characters, joined
str_upper(s) ==
    LET parts == [i \in 1..Len(s) |-> upper_char(s[i])]
    IN  IF \A i \in 1..Len(s) : Len(parts[i]) = 1
        THEN [i \in 1..Len(s) |-> parts[i][1]]
        ELSE Flatten(parts)

\* str.replace(" ", ""): removes the space character only
replace_space(s) == SelectSeq(s, LAMBDA c : c /= " ")

\* sub in s
str_contains(sub, s) ==
    \E i \in 0..(Len(s) - Len(sub)) : SubSeq(s, i + 1, i + Len(sub)) = sub

\* str.strip(): leading and trailing whitespace removed
strip(s) ==
    LET keep == {i \in 1..Len(s) : s[i] \notin Whitespace}
    IN  IF keep = {} THEN <<>> ELSE SubSeq(s, SeqMin(keep), SeqMax(keep))

\* the marker literal of streaming.py:52
NO_REPLY == <<"N","O","_","R","E","P","L","Y">>

----------------------------------------------------------------------------
(* SENTENCE_END_PATTERN = re.compile(r'[.!?]\s*$|[.!?]\"?\s*$') *)

SentenceEnders == {".", "!", "?"}

\* $ without re.MULTILINE: the end of the string, or just before a newline
\* that is the last character
re_at_end(t, j) == j = Len(t) + 1 \/ (j = Len(t) /\ t[j] = "\n")

\* \s*$ matched from position j
re_ws_to_end(t, j) ==
    \E k \in j..(Len(t) + 1) :
        /\ \A m \in j..(k - 1) : t[m] \in Whitespace
        /\ re_at_end(t, k)

\* [.!?]\s*$ matched at position i
re_alt_plain(t, i) == t[i] \in SentenceEnders /\ re_ws_to_end(t, i + 1)

\* variant of re_alt_quote: the pattern has no optional quote
re_alt_quote_NoQuote(t, i) ==
    t[i] \in SentenceEnders /\ re_ws_to_end(t, i + 1)

\* [.!?]\"?\s*$ matched at position i: the quote is taken or skipped
re_alt_quote(t, i) ==
    /\ t[i] \in SentenceEnders
    /\ \/ (i + 1 <= Len(t) /\ t[i + 1] = "\"" /\ re_ws_to_end(t, i + 2))
       \/ re_ws_to_end(t, i + 1)

\* pattern.search(t): some position where one of the alternatives matches
SENTENCE_END_PATTERN_search(t) ==
    \E i \in 1..Len(t) : re_alt_plain(t, i) \/ re_alt_quote(t, i)

is_sentence_complete(text) == SENTENCE_END_PATTERN_search(strip(text))

----------------------------------------------------------------------------
(* Collaborators *)

\* what tts_client.async_text_to_speech returns for a text
async_text_to_speech(sentence) == <<"audio", sentence>>

\* base64.b64encode(audio_data).decode("utf-8")
b64encode(audio_data) == <<"b64", audio_data>>

\* tokens the language model may deliver; the last is the vertical tab,
\* U+000B, and U+0149 is the character whose upper-case text is U+02BC "N"
TokenSet == {
    <<"H","e","l","l","o"," ","w","o","r","l","d",".">>,
    <<"O","k",".">>,
    <<"H","i"," ","a","l","l",".">>,
    <<"S","h","e"," ","s","a","i","d"," ","\"","g","o",".","\"">>,
    <<"N","o">>,
    <<"_","R","E","P","L","Y">>,
    <<"_","r","e","p","l","y",".">>,
    <<"U+0149","o">>,
    <<" ">>,
    <<"">>
}

\* failures of llm_client.stream_response (the cases of llm.py:220-248)
LlmErrors == {"transport", "bad_request", "unknown"}

NoValue == <<"no value">>

----------------------------------------------------------------------------
(* Messages of stream_speech_with_buffering; the timestamp is left out *)

\* values of TTS_FORMAT (config.py:82): "mp3" when the environment does not
\* set it, else the text the environment holds, here another format name;
\* the coroutine copies the value into each chunk and never reads it
Formats == {"mp3", "wav"}

TtsStartMsg == [type |-> "TTS_START"]

\* streaming.py:55-58: the TTS_END of the NO_REPLY branch
AbortTtsEndMsg == [type |-> "TTS_END"]

\* streaming.py:60-65
AbortLlmResponseMsg(text) ==
    [type |-> "LLM_RESPONSE", text |-> text, metadata |-> [no_reply |-> TRUE]]

\* variant of TtsChunkMsg: the chunk is numbered before the count is raised
TtsChunkMsg_ZeroBased(audio_data, n) ==
    [type |-> "TTS_CHUNK", audio_chunk |-> b64encode(audio_data),
     format |-> output_format, sentence_num |-> n - 1]

\* variant of TtsChunkMsg: every chunk is flagged as the final one
TtsChunkMsg_Final(audio_data, n) ==
    [type |-> "TTS_CHUNK", audio_chunk |-> b64encode(audio_data),
     format |-> output_format, sentence_num |-> n, is_final |-> TRUE]

\* streaming.py:87-93
TtsChunkMsg(audio_data, n) ==
    [type |-> "TTS_CHUNK", audio_chunk |-> b64encode(audio_data),
     format |-> output_format, sentence_num |-> n]

\* streaming.py:106-113
FinalTtsChunkMsg(audio_data, n) ==
    [type |-> "TTS_CHUNK", audio_chunk |-> b64encode(audio_data),
     format |-> output_format, sentence_num |-> n, is_final |-> TRUE]

\* streaming.py:118-122
TtsEndMsg(n) == [type |-> "TTS_END", total_sentences |-> n]

\* variant of LlmResponseMsg: the text is sent stripped, as the sentences are
LlmResponseMsg_Stripped(text, n) ==
    [type |-> "LLM_RESPONSE", text |-> strip(text),
     metadata |-> [streaming |-> TRUE, sentences |-> n]]

\* streaming.py:125-130
LlmResponseMsg(text, n) ==
    [type |-> "LLM_RESPONSE", text |-> text,
     metadata |-> [streaming |-> TRUE, sentences |-> n]]

----------------------------------------------------------------------------
(* stream_speech_with_buffering *)

\* variant of NoReplyDetected: every whitespace character is removed
NoReplyDetected_AllWhitespace(text) ==
    str_contains(NO_REPLY,
                 SelectSeq(str_upper(text), LAMBDA c : c \notin Whitespace))

\* streaming.py:52
NoReplyDetected(text) == str_contains(NO_REPLY, replace_space(str_upper(text)))

\* variant of SentenceReady: a sentence of exactly 10 characters is taken
SentenceReady_AtLeast10(buf) ==
    is_sentence_complete(buf) /\ Len(strip(buf)) >= 10

\* streaming.py:69
SentenceReady(buf) == is_sentence_complete(buf) /\ Len(strip(buf)) > 10

\* variant of HasRemainingText: the buffer is tested without strip()
HasRemainingText_Unstripped(buf) == buf /= <<>>

\* streaming.py:98
HasRemainingText(buf) == strip(buf) /= <<>>

StreamInit ==
    /\ pc = "start"
    /\ buffer = <<>>
    /\ full_response = <<>>
    /\ sentence_count = 0
    /\ first_audio_sent = FALSE
    /\ sent = <<>>
    /\ consumed = <<>>
    /\ tts_calls = <<>>
    /\ ret = NoValue
    /\ raised = "none"

\* main.py:87-92: the TTS client is built with output_format = TTS_FORMAT
TtsConstructed == output_format \in Formats

\* main.py:37: tts_service = None, no TTS client is built
NoTtsClient == output_format = NoValue

\* LLMClient.__init__ (llm.py:58-60); no method called yet
LlmConstructed ==
    /\ conversation_history = <<>>
    /\ is_processing = FALSE
    /\ call = [op |-> "none"]
    /\ messages = NoValue
    /\ result = NoValue
    /\ n_calls = 0
    /\ next_id = 1
    /\ n_posts = 0

\* the websocket sessions that connect
Sessions == {1, 2}

\* the get_response calls that overlap on one client
Invocations == {1, 2}

\* main.py:33-37: no service is built before lifespan runs, no session is
\* connected
NoSessions ==
    /\ llm_service = "None"
    /\ session_llm = [s \in Sessions |-> "None"]

\* no get_response call is running
NoInvocations == invocations = [t \in Invocations |-> [pc |-> "idle"]]

\* is_sentence_complete has not been called
SegmenterIdle ==
    /\ checked_text = <<>>
    /\ checked_result = <<>>

\* DeepgramTranscriber.__init__ (transcription_deepgram.py:68-72); no
\* method called yet, transcribe_async not started
DeepgramConstructed ==
    /\ connection = 0
    /\ connections = <<>>
    /\ stt_is_processing = FALSE
    /\ transcript_callback = "None"
    /\ turn_complete_callback = "None"
    /\ handled = <<>>
    /\ stt_calls = [op \in {"connect", "send_audio", "disconnect"} |->
                        "idle"]
    /\ ta_pc = "idle"
    /\ result_text = <<>>
    /\ result_metadata = <<>>
    /\ result_event = FALSE
    /\ ta_ret = NoValue

\* stream_speech_with_buffering is called with a new LLMClient and a TTS
\* client
Init ==
    /\ StreamInit
    /\ TtsConstructed
    /\ LlmConstructed
    /\ NoSessions
    /\ NoInvocations
    /\ SegmenterIdle
    /\ DeepgramConstructed

\* main.py:33-37: the module is loaded, lifespan has not run
InitSessions ==
    /\ StreamInit
    /\ NoTtsClient
    /\ LlmConstructed
    /\ NoSessions
    /\ NoInvocations
    /\ SegmenterIdle
    /\ DeepgramConstructed

\* a DeepgramTranscriber on its own (transcription_deepgram.py:68-72)
InitDeepgram ==
    /\ StreamInit
    /\ NoTtsClient
    /\ LlmConstructed
    /\ NoSessions
    /\ NoInvocations
    /\ SegmenterIdle
    /\ DeepgramConstructed

\* the outer except of streaming.py:134-136: log and re-raise
Raise(e) ==
    /\ pc' = "raised"
    /\ raised' = e
    /\ ret' = ret

\* return full_response (streaming.py:66, 132)
Return(value) ==
    /\ pc' = "done"
    /\ ret' = value
    /\ raised' = raised

\* streaming.py:41-44: the send of TTS_START completes or raises
SendTtsStart(ok) ==
    /\ pc = "start"
    /\ IF ok
       THEN /\ sent' = Append(sent, TtsStartMsg)
            /\ pc' = "await_token"
            /\ UNCHANGED <<ret, raised>>
       ELSE /\ sent' = sent
            /\ Raise("websocket")
    /\ UNCHANGED <<buffer, full_response, sentence_count, first_audio_sent,
                   consumed, tts_calls>>
    /\ UNCHANGED not_stream_vars

\* variant of OnToken: the sentence check runs before the NO_REPLY check
OnToken_SentenceFirst(token) ==
    /\ pc = "await_token"
    /\ Len(consumed) < MaxTokens
    /\ consumed' = Append(consumed, token)
    /\ full_response' = full_response \o token
    /\ LET buf == buffer \o token
           full == full_response \o token
       IN  IF SentenceReady(buf)
           THEN /\ buffer' = <<>>
                /\ sentence_count' = sentence_count + 1
                /\ tts_calls' = Append(tts_calls, strip(buf))
                /\ pc' = "await_tts"
           ELSE IF NoReplyDetected(full)
           THEN /\ buffer' = buf
                /\ pc' = "send_abort_end"
                /\ UNCHANGED <<sentence_count, tts_calls>>
           ELSE /\ buffer' = buf
                /\ pc' = "await_token"
                /\ UNCHANGED <<sentence_count, tts_calls>>
    /\ UNCHANGED <<first_audio_sent, sent, ret, raised>>
    /\ UNCHANGED not_stream_vars

\* variant of OnToken: the synthesis of a sentence is started as a task and
\* the next token is taken while it is still running
OnToken_Pipelined(token) ==
    /\ pc \in {"await_token", "await_tts"}
    /\ Len(consumed) < MaxTokens
    /\ consumed' = Append(consumed, token)
    /\ full_response' = full_response \o token
    /\ LET buf == buffer \o token
           full == full_response \o token
       IN  IF NoReplyDetected(full)
           THEN /\ buffer' = buf
                /\ pc' = "send_abort_end"
                /\ UNCHANGED <<sentence_count, tts_calls>>
           ELSE IF SentenceReady(buf)
           THEN /\ buffer' = <<>>
                /\ sentence_count' = sentence_count + 1
                /\ tts_calls' = Append(tts_calls, strip(buf))
                /\ pc' = "await_tts"
           ELSE /\ buffer' = buf
                /\ pc' = pc
                /\ UNCHANGED <<sentence_count, tts_calls>>
    /\ UNCHANGED <<first_audio_sent, sent, ret, raised>>
    /\ UNCHANGED not_stream_vars

\* streaming.py:47-78: the token stream delivers a token and the loop body
\* runs up to its next await: the send of the abort's TTS_END (55), the
\* synthesis of a sentence (78), or the next token (47)
OnToken(token) ==
    /\ pc = "await_token"
    /\ Len(consumed) < MaxTokens
    /\ consumed' = Append(consumed, token)
    /\ full_response' = full_response \o token
    /\ LET buf == buffer \o token
           full == full_response \o token
       IN  IF NoReplyDetected(full)
           THEN /\ buffer' = buf
                /\ pc' = "send_abort_end"
                /\ UNCHANGED <<sentence_count, tts_calls>>
           ELSE IF SentenceReady(buf)
           THEN /\ buffer' = <<>>
                /\ sentence_count' = sentence_count + 1
                /\ tts_calls' = Append(tts_calls, strip(buf))
                /\ pc' = "await_tts"
           ELSE /\ buffer' = buf
                /\ pc' = "await_token"
                /\ UNCHANGED <<sentence_count, tts_calls>>
    /\ UNCHANGED <<first_audio_sent, sent, ret, raised>>
    /\ UNCHANGED not_stream_vars

\* streaming.py:55-58: the send of the abort's TTS_END completes or raises
SendAbortTtsEnd(ok) ==
    /\ pc = "send_abort_end"
    /\ IF ok
       THEN /\ sent' = Append(sent, AbortTtsEndMsg)
            /\ pc' = "send_abort_response"
            /\ UNCHANGED <<ret, raised>>
       ELSE /\ sent' = sent
            /\ Raise("websocket")
    /\ UNCHANGED <<buffer, full_response, sentence_count, first_audio_sent,
                   consumed, tts_calls>>
    /\ UNCHANGED not_stream_vars

\* streaming.py:60-66: the send of the abort's LLM_RESPONSE completes, and
\* the coroutine returns, or raises
SendAbortLlmResponse(ok) ==
    /\ pc = "send_abort_response"
    /\ IF ok
       THEN /\ sent' = Append(sent, AbortLlmResponseMsg(full_response))
            /\ Return(full_response)
       ELSE /\ sent' = sent
            /\ Raise("websocket")
    /\ UNCHANGED <<buffer, full_response, sentence_count, first_audio_sent,
                   consumed, tts_calls>>
    /\ UNCHANGED not_stream_vars

\* variant of OnSentenceTts: a synthesis error is not caught and leaves the
\* coroutine
OnSentenceTts_Propagates(ok) ==
    /\ pc = "await_tts"
    /\ IF ok
       THEN /\ first_audio_sent' = TRUE
            /\ pc' = "send_chunk"
            /\ UNCHANGED <<ret, raised>>
       ELSE /\ first_audio_sent' = first_audio_sent
            /\ Raise("tts_error")
    /\ UNCHANGED <<buffer, full_response, sentence_count, sent, consumed,
                   tts_calls>>
    /\ UNCHANGED not_stream_vars

\* streaming.py:78-86 and 94-95: the awaited synthesis of a sentence comes
\* back.  With audio, the body runs up to the send of the chunk (87); a
\* failure is caught by the inner except and the loop goes on to the next
\* token
OnSentenceTts(ok) ==
    /\ pc = "await_tts"
    /\ IF ok
       THEN /\ first_audio_sent' = TRUE
            /\ pc' = "send_chunk"
       ELSE /\ first_audio_sent' = first_audio_sent
            /\ pc' = "await_token"
    /\ UNCHANGED <<buffer, full_response, sentence_count, sent, consumed,
                   tts_calls, ret, raised>>
    /\ UNCHANGED not_stream_vars

\* streaming.py:87-95: the send of a sentence's chunk completes or raises;
\* the failure is caught by the inner except.  The loop goes on to the next
\* token
SendTtsChunk(ok) ==
    /\ pc = "send_chunk"
    /\ LET audio_data == async_text_to_speech(tts_calls[Len(tts_calls)])
       IN  sent' = IF ok
                   THEN Append(sent, TtsChunkMsg(audio_data, sentence_count))
                   ELSE sent
    /\ pc' = "await_token"
    /\ UNCHANGED <<buffer, full_response, sentence_count, first_audio_sent,
                   consumed, tts_calls, ret, raised>>
    /\ UNCHANGED not_stream_vars

\* variant of OnStreamEnd: the remaining text is synthesized without being
\* counted as a sentence
OnStreamEnd_Uncounted ==
    /\ pc = "await_token"
    /\ IF HasRemainingText(buffer)
       THEN /\ tts_calls' = Append(tts_calls, strip(buffer))
            /\ pc' = "await_final_tts"
       ELSE /\ pc' = "send_end"
            /\ UNCHANGED tts_calls
    /\ UNCHANGED <<buffer, full_response, sentence_count, first_audio_sent,
                   sent, consumed, ret, raised>>
    /\ UNCHANGED not_stream_vars

\* variant of OnStreamEnd: the whole accumulated text is flushed, not the
\* buffer
OnStreamEnd_FlushesAll ==
    /\ pc = "await_token"
    /\ IF HasRemainingText(buffer)
       THEN /\ sentence_count' = sentence_count + 1
            /\ tts_calls' = Append(tts_calls, strip(full_response))
            /\ pc' = "await_final_tts"
       ELSE /\ pc' = "send_end"
            /\ UNCHANGED <<sentence_count, tts_calls>>
    /\ UNCHANGED <<buffer, full_response, first_audio_sent, sent, consumed,
                   ret, raised>>
    /\ UNCHANGED not_stream_vars

\* streaming.py:47 and 97-103: the token stream is exhausted.  Remaining
\* text is counted and handed to the synthesiser (103); without it the
\* coroutine goes on to the send of TTS_END (118)
OnStreamEnd ==
    /\ pc = "await_token"
    /\ IF HasRemainingText(buffer)
       THEN /\ sentence_count' = sentence_count + 1
            /\ tts_calls' = Append(tts_calls, strip(buffer))
            /\ pc' = "await_final_tts"
       ELSE /\ pc' = "send_end"
            /\ UNCHANGED <<sentence_count, tts_calls>>
    /\ UNCHANGED <<buffer, full_response, first_audio_sent, sent, consumed,
                   ret, raised>>
    /\ UNCHANGED not_stream_vars

\* variant of OnFinalTts: a failure of the final synthesis is not caught and
\* leaves the coroutine
OnFinalTts_Propagates(ok) ==
    /\ pc = "await_final_tts"
    /\ IF ok
       THEN /\ pc' = "send_final_chunk"
            /\ UNCHANGED <<ret, raised>>
       ELSE Raise("tts_error")
    /\ UNCHANGED <<buffer, full_response, sentence_count, first_audio_sent,
                   sent, consumed, tts_calls>>
    /\ UNCHANGED not_stream_vars

\* streaming.py:103-105 and 114-115: the synthesis of the remaining text
\* comes back.  With audio, the coroutine goes on to the send of the final
\* chunk (106); a failure is caught by the inner except and the coroutine
\* goes on to the send of TTS_END (118)
OnFinalTts(ok) ==
    /\ pc = "await_final_tts"
    /\ pc' = IF ok THEN "send_final_chunk" ELSE "send_end"
    /\ UNCHANGED <<buffer, full_response, sentence_count, first_audio_sent,
                   sent, consumed, tts_calls, ret, raised>>
    /\ UNCHANGED not_stream_vars

\* streaming.py:106-115: the send of the final chunk completes or raises;
\* the failure is caught by the inner except.  The coroutine goes on to the
\* send of TTS_END (118)
SendFinalTtsChunk(ok) ==
    /\ pc = "send_final_chunk"
    /\ LET audio_data == async_text_to_speech(tts_calls[Len(tts_calls)])
       IN  sent' = IF ok
                   THEN Append(sent,
                               FinalTtsChunkMsg(audio_data, sentence_count))
                   ELSE sent
    /\ pc' = "send_end"
    /\ UNCHANGED <<buffer, full_response, sentence_count, first_audio_sent,
                   consumed, tts_calls, ret, raised>>
    /\ UNCHANGED not_stream_vars

\* variant of SendTtsEnd: the response is sent in the place of TTS_END
SendTtsEnd_Swapped(ok) ==
    /\ pc = "send_end"
    /\ IF ok
       THEN /\ sent' = Append(sent,
                              LlmResponseMsg(full_response, sentence_count))
            /\ pc' = "send_response"
            /\ UNCHANGED <<ret, raised>>
       ELSE /\ sent' = sent
            /\ Raise("websocket")
    /\ UNCHANGED <<buffer, full_response, sentence_count, first_audio_sent,
                   consumed, tts_calls>>
    /\ UNCHANGED not_stream_vars

\* streaming.py:118-122: the send of TTS_END completes or raises
SendTtsEnd(ok) ==
    /\ pc = "send_end"
    /\ IF ok
       THEN /\ sent' = Append(sent, TtsEndMsg(sentence_count))
            /\ pc' = "send_response"
            /\ UNCHANGED <<ret, raised>>
       ELSE /\ sent' = sent
            /\ Raise("websocket")
    /\ UNCHANGED <<buffer, full_response, sentence_count, first_audio_sent,
                   consumed, tts_calls>>
    /\ UNCHANGED not_stream_vars

\* streaming.py:125-132: the send of LLM_RESPONSE completes, and the
\* coroutine returns, or raises
SendLlmResponse(ok) ==
    /\ pc = "send_response"
    /\ IF ok
       THEN /\ sent' = Append(sent,
                              LlmResponseMsg(full_response, sentence_count))
            /\ Return(full_response)
       ELSE /\ sent' = sent
            /\ Raise("websocket")
    /\ UNCHANGED <<buffer, full_response, sentence_count, first_audio_sent,
                   consumed, tts_calls>>
    /\ UNCHANGED not_stream_vars

\* streaming.py:47 and 134-136: stream_response raises while the next
\* token is awaited
OnLlmError(e) ==
    /\ pc = "await_token"
    /\ Raise(e)
    /\ UNCHANGED <<buffer, full_response, sentence_count, first_audio_sent,
                   sent, consumed, tts_calls>>
    /\ UNCHANGED not_stream_vars

\* the sends of stream_speech_with_buffering, each resumed with the outcome
\* of websocket.send_json
SendStep(ok) ==
    \/ SendTtsStart(ok)
    \/ SendAbortTtsEnd(ok)
    \/ SendAbortLlmResponse(ok)
    \/ SendTtsChunk(ok)
    \/ SendFinalTtsChunk(ok)
    \/ SendTtsEnd(ok)
    \/ SendLlmResponse(ok)

Next ==
    \/ \E ok \in BOOLEAN : SendStep(ok)
    \/ \E token \in TokenSet : OnToken(token)
    \/ \E ok \in BOOLEAN : OnSentenceTts(ok)
    \/ OnStreamEnd
    \/ \E ok \in BOOLEAN : OnFinalTts(ok)
    \/ \E e \in LlmErrors : OnLlmError(e)

Spec == Init /\ [][Next]_vars

----------------------------------------------------------------------------
(* SpecLive: a run whose token stream is finite and does not fail.  The     *)
(* event loop resumes the coroutine whenever the collaborator it awaits     *)
(* has delivered (the next token or the end of the stream, the audio or the *)
(* failure of a synthesis, the outcome of a send), so a step that stays     *)
(* possible is eventually taken.                                            *)

\* tokens of the streams of SpecLive: a sentence, a short text, and the
\* two halves of the marker
LiveTokens == {
    <<"H","e","l","l","o"," ","w","o","r","l","d",".">>,
    <<"O","k",".">>,
    <<"N","o">>,
    <<"_","R","E","P","L","Y">>
}

NextLive ==
    \/ \E ok \in BOOLEAN : SendStep(ok)
    \/ \E token \in LiveTokens : OnToken(token)
    \/ \E ok \in BOOLEAN : OnSentenceTts(ok)
    \/ OnStreamEnd
    \/ \E ok \in BOOLEAN : OnFinalTts(ok)

SpecLive == Init /\ [][NextLive]_vars /\ WF_vars(NextLive)

----------------------------------------------------------------------------
(* SpecCancel: a run of stream_speech_with_buffering whose task the caller  *)
(* may cancel.  asyncio throws CancelledError into the coroutine at the     *)
(* await it is suspended at; CancelledError is a BaseException, so neither  *)
(* the inner `except Exception` (streaming.py:94, 114) nor the outer one    *)
(* (134) catches it and it leaves the coroutine.                            *)

\* the awaits of stream_speech_with_buffering (streaming.py:41, 47, 55, 60,
\* 78, 87, 103, 106, 118, 125)
Awaits == {"start", "await_token", "send_abort_end", "send_abort_response",
           "await_tts", "send_chunk", "await_final_tts", "send_final_chunk",
           "send_end", "send_response"}

\* CancelledError leaves the coroutine
Cancelled ==
    /\ pc' = "cancelled"
    /\ raised' = "CancelledError"
    /\ ret' = ret

\* variant of CancelAwaiting: a handler saves the text received so far as
\* the assistant turn before the cancellation leaves the coroutine
CancelAwaiting_SavesPartial ==
    /\ pc \in Awaits
    /\ Cancelled
    /\ conversation_history' =
           Append(conversation_history,
                  [role |-> "assistant", content |-> full_response])
    /\ UNCHANGED <<buffer, full_response, sentence_count, first_audio_sent,
                   sent, consumed, tts_calls>>
    /\ UNCHANGED <<is_processing, call, messages, result, n_calls, next_id,
                   n_posts>>
    /\ UNCHANGED <<session_vars, overlap_vars, segmenter_vars, deepgram_vars,
                   tts_vars>>

\* the task is cancelled while the coroutine is suspended at one of its
\* awaits: the send, the token or the synthesis it waits for does not
\* complete
CancelAwaiting ==
    /\ pc \in Awaits
    /\ Cancelled
    /\ UNCHANGED <<buffer, full_response, sentence_count, first_audio_sent,
                   sent, consumed, tts_calls>>
    /\ UNCHANGED not_stream_vars

NextCancel ==
    \/ Next
    \/ CancelAwaiting

SpecCancel == Init /\ [][NextCancel]_vars

----------------------------------------------------------------------------
(* LLMClient (services/llm.py): the conversation history and get_response. *)
(* SpecLLM starts from a client whose history was filled by earlier        *)
(* add_to_history calls and lets one thread call its public methods in any *)
(* order, each call returning before the next is made; requests.post is    *)
(* the collaborator.  A get_response call is two steps, because the thread *)
(* waits in the blocking requests.post (llm.py:186) with is_processing set *)
(* and the user turn recorded.  The client takes no lock; what calls made  *)
(* from several threads do to each other is SpecOverlap and SpecShared,    *)
(* where every access to the fields of the client is a step of its own.    *)

\* number of LLMClient method calls in one behaviour
MaxCalls == 2

\* len(self.conversation_history) > 50 (llm.py:101)
MaxTurns == 50

\* self.conversation_history[-49:] (llm.py:106)
KeptAfterSystem == 49

\* self.conversation_history[-50:] (llm.py:109)
KeptWithoutSystem == 50

Roles == {"system", "user", "assistant"}

\* {"role": role, "content": content} (llm.py:95-98)
Turn(role, content) == [role |-> role, content |-> content]

Digits == <<"0","1","2","3","4","5","6","7","8","9">>

\* the content of the n-th turn handed to add_to_history, n < 100
TurnText(n) == <<"#", Digits[(n \div 10) + 1], Digits[(n % 10) + 1]>>

\* user_input values
UserInputs == { <<"h","i">>, <<" ","\t">>, <<>> }

\* system_prompt values; None and "" are both falsy and modelled as <<>>
SystemPrompts == { <<>>, <<"B","e"," ","b","r","i","e","f",".">> }

\* Python's None, where a text is expected
None == <<"None">>

\* what requests.post, raise_for_status and the parsing of the body
\* (llm.py:186-200) do:
\*   "ok"        a reply whose content is a text,
\*   "ok_empty"  a reply whose content is "", or a body without the key
\*               choices, without message or without content, for which the
\*               defaults of the get calls of line 200 give "",
\*   "ok_null"   a reply whose content is null,
\*   "ok_parts"  a reply whose content is a list, here of one string,
\*   "transport" a connection error or a timeout,
\*   "http_400", "http_500"  raise_for_status raises for the status,
\*   "malformed" a body that is no object, or whose choices is null, an
\*               empty list or a list of something that is no object, or
\*               whose message is null, at which line 200 raises
\*               (IndexError, AttributeError, TypeError)
PostOutcomes == {"ok", "ok_empty", "ok_null", "ok_parts", "transport",
                 "http_400", "http_500", "malformed"}

\* llm.py:200: assistant_message
AssistantReply(outcome) ==
    CASE outcome = "ok" -> <<"S","u","r","e",".">>
      [] outcome = "ok_empty" -> <<>>
      [] outcome = "ok_null" -> None
      [] outcome = "ok_parts" -> << "Sure." >>

\* the truth value Python gives a text, a list or None
Truthy(value) == value /= <<>> /\ value /= None

\* llm.py:222
TransportApology(e) ==
    <<"I'm sorry, I encountered a problem connecting to my language model. ", e>>

\* llm.py:242
GenericApology ==
    <<"I'm sorry, I encountered an unexpected error. Please try again.">>

\* seq[-n:] for n > 0
LastN(seq, n) ==
    IF Len(seq) <= n THEN seq ELSE SubSeq(seq, Len(seq) - n + 1, Len(seq))

\* variant of add_to_history: the leading system turn is not kept
add_to_history_Unpinned(history, role, content) ==
    LET h == Append(history, Turn(role, content))
    IN  IF Len(h) > MaxTurns THEN LastN(h, KeptWithoutSystem) ELSE h

\* variant of add_to_history: the slices are taken from the front, [:49]
\* and [:50], so the newest turn is dropped
add_to_history_FrontSlice(history, role, content) ==
    LET h == Append(history, Turn(role, content))
    IN  IF Len(h) > MaxTurns
        THEN IF h[1].role = "system"
             THEN <<h[1]>> \o SubSeq(h, 2, KeptAfterSystem + 1)
             ELSE SubSeq(h, 1, KeptWithoutSystem)
        ELSE h

\* variant of add_to_history: 50 turns are kept after the system turn
add_to_history_KeepsFifty(history, role, content) ==
    LET h == Append(history, Turn(role, content))
    IN  IF Len(h) > MaxTurns
        THEN IF h[1].role = "system"
             THEN <<h[1]>> \o LastN(h, KeptWithoutSystem)
             ELSE LastN(h, KeptWithoutSystem)
        ELSE h

\* llm.py:95-98: self.conversation_history.append(...)
append_turn(history, role, content) == Append(history, Turn(role, content))

\* llm.py:101-109: the history is cut to its system turn and the newest
\* turns when it holds more than 50
trim_history(h) ==
    IF Len(h) > MaxTurns
    THEN IF h[1].role = "system"
         THEN <<h[1]>> \o LastN(h, KeptAfterSystem)
         ELSE LastN(h, KeptWithoutSystem)
    ELSE h

\* llm.py:87-109
add_to_history(history, role, content) ==
    trim_history(append_turn(history, role, content))

\* variant of clear_history: the history is always emptied
clear_history_DropsAll(history, keep_system_prompt) == <<>>

\* variant of clear_history: the first turn is kept whatever its role
clear_history_KeepsFirst(history, keep_system_prompt) ==
    IF keep_system_prompt /\ history /= <<>> THEN <<history[1]>> ELSE <<>>

\* llm.py:252-262
clear_history(history, keep_system_prompt) ==
    IF keep_system_prompt /\ history /= <<>> /\ history[1].role = "system"
    THEN <<history[1]>>
    ELSE <<>>

\* variant of HistoryWithUser: the input is tested without strip()
HistoryWithUser_Unstripped(history, user_input, add) ==
    IF user_input /= <<>> /\ add
    THEN add_to_history(history, "user", user_input)
    ELSE history

\* llm.py:129-152: the history after the user turn is recorded
HistoryWithUser(history, user_input, add) ==
    IF strip(user_input) /= <<>> /\ add
    THEN add_to_history(history, "user", user_input)
    ELSE history

\* variant of BuildMessages: the user turn is also appended after the
\* history when it was recorded in the history
BuildMessages_Duplicated(history, user_input, system_prompt, add) ==
    (IF system_prompt /= <<>> THEN <<Turn("system", system_prompt)>> ELSE <<>>)
    \o HistoryWithUser(history, user_input, add)
    \o (IF strip(user_input) /= <<>>
        THEN <<Turn("user", user_input)>> ELSE <<>>)

\* llm.py:130-152: payload["messages"]
BuildMessages(history, user_input, system_prompt, add) ==
    (IF system_prompt /= <<>> THEN <<Turn("system", system_prompt)>> ELSE <<>>)
    \o HistoryWithUser(history, user_input, add)
    \o (IF strip(user_input) /= <<>> /\ ~add
        THEN <<Turn("user", user_input)>> ELSE <<>>)

\* variant of HistoryAfterReply: the reply is recorded whatever it holds
HistoryAfterReply_AlwaysRecorded(history, assistant_message, add) ==
    IF add
    THEN add_to_history(history, "assistant", assistant_message)
    ELSE history

\* llm.py:199-204: the history after a successful reply
HistoryAfterReply(history, assistant_message, add) ==
    IF Truthy(assistant_message) /\ add
    THEN add_to_history(history, "assistant", assistant_message)
    ELSE history

\* variant of HistoryAfterRequestError: the apology is recorded whatever
\* add_to_history is
HistoryAfterRequestError_AlwaysAdds(history, outcome, add) ==
    LET h == add_to_history(history, "assistant", TransportApology(outcome))
    IN  IF add /\ outcome = "http_400" THEN clear_history(h, TRUE) ELSE h

\* variant of HistoryAfterRequestError: the history is cleared before the
\* apology is recorded
HistoryAfterRequestError_ClearsFirst(history, outcome, add) ==
    IF add
    THEN LET h == IF outcome = "http_400"
                  THEN clear_history(history, TRUE) ELSE history
         IN  add_to_history(h, "assistant", TransportApology(outcome))
    ELSE history

\* llm.py:220-233: the history after a requests.RequestException
HistoryAfterRequestError(history, outcome, add) ==
    IF add
    THEN LET h == add_to_history(history, "assistant", TransportApology(outcome))
         IN  IF outcome = "http_400" THEN clear_history(h, TRUE) ELSE h
    ELSE history

\* variant of HistoryAfterOtherError: the history is reset as after a 400
HistoryAfterOtherError_Resets(history, add) ==
    clear_history(add_to_history(history, "assistant", GenericApology), TRUE)

\* llm.py:240-243: the history after any other exception
HistoryAfterOtherError(history, add) ==
    add_to_history(history, "assistant", GenericApology)

\* the history turns a client holds when SpecLLM starts: n turns, the
\* first two with the given roles, then user and assistant in turn
InitHistory(n, r1, r2) ==
    [i \in 1..n |->
        Turn(IF i = 1 THEN r1
             ELSE IF i = 2 THEN r2
             ELSE IF i % 2 = 1 THEN "user" ELSE "assistant",
             TurnText(i))]

\* an LLMClient whose history holds the turns of earlier exchanges
LlmInUse ==
    /\ n_posts = 0
    /\ \E n \in {0, 1, MaxTurns - 1, MaxTurns},
          r1 \in {"system", "user"}, r2 \in {"system", "user"} :
          /\ conversation_history = InitHistory(n, r1, r2)
          /\ next_id = n + 1
    /\ is_processing = FALSE
    /\ call = [op |-> "none"]
    /\ messages = NoValue
    /\ result = NoValue
    /\ n_calls = 0

\* an LLMClient on its own
InitLLM ==
    /\ StreamInit
    /\ NoTtsClient
    /\ NoSessions
    /\ NoInvocations
    /\ SegmenterIdle
    /\ DeepgramConstructed
    /\ LlmInUse

\* an LLMClient and a TTS client, as stream_speech_with_buffering is given
InitReply ==
    /\ StreamInit
    /\ TtsConstructed
    /\ NoSessions
    /\ NoInvocations
    /\ SegmenterIdle
    /\ DeepgramConstructed
    /\ LlmInUse

\* no call of a method of the client is under way
NoCallInFlight == \A t \in Invocations : invocations[t].pc = "idle"

\* LLMClient.add_to_history called by the application
AddToHistory(role) ==
    /\ n_calls < MaxCalls
    /\ NoCallInFlight
    /\ conversation_history' =
           add_to_history(conversation_history, role, TurnText(next_id))
    /\ call' = [op |-> "add_to_history", role |-> role,
                content |-> TurnText(next_id)]
    /\ next_id' = next_id + 1
    /\ n_calls' = n_calls + 1
    /\ UNCHANGED <<is_processing, messages, result, n_posts>>
    /\ UNCHANGED not_llm_vars

\* LLMClient.clear_history called by the application
ClearHistory(keep_system_prompt) ==
    /\ n_calls < MaxCalls
    /\ NoCallInFlight
    /\ conversation_history' =
           clear_history(conversation_history, keep_system_prompt)
    /\ call' = [op |-> "clear_history",
                keep_system_prompt |-> keep_system_prompt]
    /\ n_calls' = n_calls + 1
    /\ UNCHANGED <<is_processing, messages, result, next_id, n_posts>>
    /\ UNCHANGED not_llm_vars

\* what a get_response step leaves alone
not_reply_vars == <<stream_vars, session_vars, segmenter_vars, deepgram_vars,
                    tts_vars>>

\* LLMClient.get_response (llm.py:111-186), from the call to the entry into
\* requests.post: is_processing is set, the user turn is recorded, the
\* messages are built and the request is sent.  call.history keeps the
\* history the call found, which the program does not keep.
CallGetResponse(user_input, system_prompt, add) ==
    /\ n_calls < MaxCalls
    /\ NoCallInFlight
    /\ is_processing' = TRUE
    /\ conversation_history' =
           HistoryWithUser(conversation_history, user_input, add)
    /\ messages' = BuildMessages(conversation_history, user_input,
                                 system_prompt, add)
    /\ call' = [op |-> "get_response", user_input |-> user_input,
                system_prompt |-> system_prompt, add_to_history |-> add,
                outcome |-> "pending", history |-> conversation_history]
    /\ n_calls' = n_calls + 1
    /\ n_posts' = n_posts + 1
    /\ invocations' = [invocations EXCEPT ![1] =
                           [pc |-> "posting", add_to_history |-> add]]
    /\ UNCHANGED <<result, next_id>>
    /\ UNCHANGED not_reply_vars

\* LLMClient.get_response (llm.py:186-250), from the return of
\* requests.post to the return of the call; the keys processing_time,
\* finish_reason, model and via_clawdbot of the returned dict are left out
ReturnGetResponse(outcome) ==
    /\ invocations[1].pc = "posting"
    /\ call.op = "get_response"
    /\ call.outcome = "pending"
    /\ LET add == call.add_to_history
       IN  CASE outcome \in {"ok", "ok_empty", "ok_null", "ok_parts"} ->
                 /\ conversation_history' =
                        HistoryAfterReply(conversation_history,
                                          AssistantReply(outcome), add)
                 /\ result' = [text |-> AssistantReply(outcome)]
             [] outcome \in {"transport", "http_400", "http_500"} ->
                 /\ conversation_history' =
                        HistoryAfterRequestError(conversation_history,
                                                 outcome, add)
                 /\ result' = [text |-> TransportApology(outcome),
                               error |-> outcome]
             [] outcome = "malformed" ->
                 /\ conversation_history' =
                        HistoryAfterOtherError(conversation_history, add)
                 /\ result' = [text |-> GenericApology, error |-> outcome]
    /\ is_processing' = FALSE
    /\ call' = [call EXCEPT !.outcome = outcome]
    /\ invocations' = [invocations EXCEPT ![1] = [pc |-> "idle"]]
    /\ UNCHANGED <<messages, n_calls, next_id, n_posts>>
    /\ UNCHANGED not_reply_vars

NextLLM ==
    \/ \E role \in Roles : AddToHistory(role)
    \/ \E keep \in BOOLEAN : ClearHistory(keep)
    \/ \E user_input \in UserInputs, system_prompt \in SystemPrompts,
          add \in BOOLEAN :
          CallGetResponse(user_input, system_prompt, add)
    \/ \E outcome \in PostOutcomes : ReturnGetResponse(outcome)

SpecLLM == InitLLM /\ [][NextLLM]_vars

----------------------------------------------------------------------------
(* SpecPrompt: SpecLLM for an application that also records its system      *)
(* prompt in the history with add_to_history("system", prompt), the turn    *)
(* that add_to_history and clear_history keep at index 0, and passes the    *)
(* same prompt to get_response.                                             *)

\* LLMClient.add_to_history called with the system prompt as content
SetSystemPrompt(system_prompt) ==
    /\ n_calls < MaxCalls
    /\ NoCallInFlight
    /\ conversation_history' =
           add_to_history(conversation_history, "system", system_prompt)
    /\ call' = [op |-> "add_to_history", role |-> "system",
                content |-> system_prompt]
    /\ n_calls' = n_calls + 1
    /\ UNCHANGED <<is_processing, messages, result, next_id, n_posts>>
    /\ UNCHANGED not_llm_vars

NextPrompt ==
    \/ \E system_prompt \in SystemPrompts \ {<<>>} :
          SetSystemPrompt(system_prompt)
    \/ NextLLM

SpecPrompt == InitLLM /\ [][NextPrompt]_vars

----------------------------------------------------------------------------
(* SpecReply: a reply is produced either by calls of LLMClient.get_response *)
(* or by one run of stream_speech_with_buffering on a new client.           *)

NextReply ==
    \/ n_calls = 0 /\ conversation_history = <<>> /\ Next
    \/ pc = "start" /\ NextLLM

SpecReply == InitReply /\ [][NextReply]_vars

----------------------------------------------------------------------------
(* SpecSegmenter: is_sentence_complete (streaming.py:17-19) called on a     *)
(* text of at most MaxTextLen characters.                                   *)

\* the characters the checked texts are made of
\* the last two are the vertical tab, U+000B, and the no-break space, U+00A0
TextChars == {"a", ".", "!", "?", "\"", " ", "\n", "", " "}

Texts == UNION {[1..n -> TextChars] : n \in 0..MaxTextLen}

InitSegmenter ==
    /\ StreamInit
    /\ NoTtsClient
    /\ LlmConstructed
    /\ NoSessions
    /\ NoInvocations
    /\ DeepgramConstructed
    /\ checked_text \in Texts
    /\ checked_result = <<>>

\* the call is_sentence_complete(checked_text)
CheckSentence ==
    /\ Len(checked_result) = 0
    /\ checked_result' = <<is_sentence_complete(checked_text)>>
    /\ UNCHANGED <<checked_text, stream_vars, llm_vars, session_vars,
                   overlap_vars, deepgram_vars, tts_vars>>

NextSegmenter == CheckSentence

SpecSegmenter == InitSegmenter /\ [][NextSegmenter]_vars

----------------------------------------------------------------------------
(* SpecSessions: the application of main.py.  lifespan builds one LLMClient *)
(* and binds it to the global llm_service; websocket_route hands that       *)
(* object to websocket_endpoint for every connection.  websocket_endpoint   *)
(* (routes/websocket.py) asks the client it was given for a reply to each   *)
(* utterance of its session.                                                *)

\* what the user of each session says
SessionInput(s) == IF s = 1 THEN <<"h","i">> ELSE <<"y","o">>

\* main.py:64-66: llm_service = LLMClient(...); main.py:87-92: tts_service =
\* TTSClient(..., output_format=cfg["tts_format"])
Lifespan ==
    /\ llm_service = "None"
    /\ llm_service' = "LLMClient@1"
    /\ output_format' \in Formats
    /\ UNCHANGED session_llm
    /\ UNCHANGED <<stream_vars, llm_vars, overlap_vars, segmenter_vars,
                   deepgram_vars>>

\* main.py:187-196: a connection is accepted and the handler is given the
\* global llm_service
WebsocketRoute(s) ==
    /\ llm_service /= "None"
    /\ session_llm[s] = "None"
    /\ session_llm' = [session_llm EXCEPT ![s] = llm_service]
    /\ UNCHANGED llm_service
    /\ UNCHANGED <<stream_vars, llm_vars, overlap_vars, segmenter_vars,
                   deepgram_vars, tts_vars>>

\* the handler of session s asks its llm_client for a reply to an utterance;
\* the only LLMClient object is the one whose fields are
\* conversation_history and is_processing
SessionRequest(s) ==
    /\ session_llm[s] = "LLMClient@1"
    /\ CallGetResponse(SessionInput(s), <<>>, TRUE)

\* the reply asked for session s comes back
SessionReply(s, outcome) ==
    /\ session_llm[s] = "LLMClient@1"
    /\ call.op = "get_response"
    /\ call.user_input = SessionInput(s)
    /\ ReturnGetResponse(outcome)

NextSessions ==
    \/ Lifespan
    \/ \E s \in Sessions : WebsocketRoute(s)
    \/ \E s \in Sessions : SessionRequest(s)
    \/ \E s \in Sessions, outcome \in PostOutcomes : SessionReply(s, outcome)

SpecSessions == InitSessions /\ [][NextSessions]_vars

----------------------------------------------------------------------------
(* SpecOverlap: two get_response calls on one LLMClient made from two       *)
(* threads.  get_response takes no lock and never reads is_processing, so   *)
(* the accesses of the two calls to conversation_history and is_processing  *)
(* race: a thread can be switched between any two statements, and is        *)
(* switched when it writes a log line or waits in requests.post.  Each      *)
(* statement that reads or writes a field of the client is a step, and the  *)
(* steps of the two calls interleave in every order.  SpecShared adds       *)
(* threads that call add_to_history and clear_history meanwhile.            *)

\* what each call is asked
InvocationInput(t) == IF t = 1 THEN <<"h","i">> ELSE <<"y","o">>

\* what the endpoint answers to a request that succeeds
ReplyTo(user_input) == <<"R", ":">> \o user_input

\* llm.py:200: assistant_message of the call of thread t
InvocationReply(t, outcome) ==
    IF outcome = "ok" THEN ReplyTo(InvocationInput(t))
    ELSE AssistantReply(outcome)

InitOverlap ==
    /\ StreamInit
    /\ NoTtsClient
    /\ NoSessions
    /\ SegmenterIdle
    /\ NoInvocations
    /\ DeepgramConstructed
    /\ conversation_history \in {<<>>, <<Turn("system", TurnText(1))>>}
    /\ is_processing = FALSE
    /\ call = [op |-> "none"]
    /\ messages = NoValue
    /\ result = NoValue
    /\ n_calls = 0
    /\ next_id = 2
    /\ n_posts = 0

\* llm.py:111-125: get_response is called and sets is_processing
StartGetResponse(t, add) ==
    /\ invocations[t].pc = "idle"
    /\ is_processing' = TRUE
    /\ n_calls' = n_calls + 1
    /\ invocations' = [invocations EXCEPT ![t] =
                           [pc |-> "record_user", add_to_history |-> add]]
    /\ UNCHANGED <<conversation_history, call, messages, result, next_id,
                   n_posts>>
    /\ UNCHANGED not_reply_vars

\* llm.py:139-141 with 95-98: the user turn is appended to the history
RecordUserTurn(t) ==
    /\ invocations[t].pc = "record_user"
    /\ IF strip(InvocationInput(t)) /= <<>> /\ invocations[t].add_to_history
       THEN /\ conversation_history' =
                   append_turn(conversation_history, "user",
                               InvocationInput(t))
            /\ invocations' = [invocations EXCEPT ![t].pc = "trim_user"]
       ELSE /\ UNCHANGED conversation_history
            /\ invocations' = [invocations EXCEPT ![t].pc = "build"]
    /\ UNCHANGED <<is_processing, call, messages, result, n_calls, next_id,
                   n_posts>>
    /\ UNCHANGED not_reply_vars

\* where a thread goes on after the trim that follows its append
AfterTrim(inv) ==
    CASE inv.pc = "trim_user" -> "build"
      [] inv.pc = "trim_reply" -> "return"
      [] inv.pc = "trim_apology" ->
            IF inv.outcome = "http_400" THEN "reset" ELSE "return"
      [] inv.pc = "trim_added" -> "returned"

\* llm.py:101-109: add_to_history cuts the history it appended to; the
\* histories of SpecOverlap and SpecShared hold fewer than 50 turns, so
\* the statement reads the length and writes nothing
TrimHistory(t) ==
    /\ invocations[t].pc \in {"trim_user", "trim_reply", "trim_apology",
                              "trim_added"}
    /\ conversation_history' = trim_history(conversation_history)
    /\ invocations' = [invocations EXCEPT ![t].pc = AfterTrim(invocations[t])]
    /\ UNCHANGED <<is_processing, call, messages, result, n_calls, next_id,
                   n_posts>>
    /\ UNCHANGED not_reply_vars

\* llm.py:130-152: the messages are built; line 144 copies the history as
\* it is now, lines 148-152 add the user turn that was not recorded
BuildRequest(t) ==
    /\ invocations[t].pc = "build"
    /\ invocations' =
           [invocations EXCEPT ![t] =
               [pc |-> "send",
                add_to_history |-> invocations[t].add_to_history,
                messages |->
                    conversation_history
                    \o (IF strip(InvocationInput(t)) /= <<>>
                           /\ ~invocations[t].add_to_history
                        THEN <<Turn("user", InvocationInput(t))>>
                        ELSE <<>>)]]
    /\ UNCHANGED llm_vars
    /\ UNCHANGED not_reply_vars

\* llm.py:155-186: the payload is logged and requests.post is entered
EnterPost(t) ==
    /\ invocations[t].pc = "send"
    /\ messages' = invocations[t].messages
    /\ n_posts' = n_posts + 1
    /\ invocations' = [invocations EXCEPT ![t].pc = "posting"]
    /\ UNCHANGED <<conversation_history, is_processing, call, result,
                   n_calls, next_id>>
    /\ UNCHANGED not_reply_vars

\* the dict the call of thread t returns
InvocationResult(t, outcome) ==
    CASE outcome \in {"ok", "ok_empty", "ok_null", "ok_parts"} ->
            [text |-> InvocationReply(t, outcome)]
      [] outcome \in {"transport", "http_400", "http_500"} ->
            [text |-> TransportApology(outcome), error |-> outcome]
      [] outcome = "malformed" ->
            [text |-> GenericApology, error |-> outcome]

\* the reply or the apology is appended to the history in this outcome
Recorded(t, outcome, add) ==
    CASE outcome \in {"ok", "ok_empty", "ok_null", "ok_parts"} ->
            Truthy(InvocationReply(t, outcome)) /\ add
      [] outcome \in {"transport", "http_400", "http_500"} -> add
      [] outcome = "malformed" -> TRUE

\* llm.py:186-204, 220-227, 240-243: requests.post returns or raises, and
\* the call runs up to the append (95-98) of the reply or of the apology;
\* nothing of the client is read or written in between
LeavePost(t, outcome) ==
    /\ invocations[t].pc = "posting"
    /\ LET inv == invocations[t]
           res == InvocationResult(t, outcome)
           failed == "error" \in DOMAIN res
       IN  IF Recorded(t, outcome, inv.add_to_history)
           THEN /\ conversation_history' =
                       append_turn(conversation_history, "assistant",
                                   res.text)
                /\ invocations' =
                       [invocations EXCEPT ![t] =
                           [pc |-> IF failed THEN "trim_apology"
                                   ELSE "trim_reply",
                            add_to_history |-> inv.add_to_history,
                            outcome |-> outcome]]
           ELSE /\ UNCHANGED conversation_history
                /\ invocations' =
                       [invocations EXCEPT ![t] =
                           [pc |-> "return",
                            add_to_history |-> inv.add_to_history,
                            outcome |-> outcome]]
    /\ UNCHANGED <<is_processing, call, messages, result, n_calls, next_id,
                   n_posts>>
    /\ UNCHANGED not_reply_vars

\* llm.py:229-233 with 259-262: the history is reset after an HTTP 400
ResetHistory(t) ==
    /\ invocations[t].pc = "reset"
    /\ conversation_history' = clear_history(conversation_history, TRUE)
    /\ invocations' = [invocations EXCEPT ![t].pc = "return"]
    /\ UNCHANGED <<is_processing, call, messages, result, n_calls, next_id,
                   n_posts>>
    /\ UNCHANGED not_reply_vars

\* llm.py:206-218, 235-239, 244-250: the result is returned and the finally
\* clause clears is_processing
ReturnResponse(t) ==
    /\ invocations[t].pc = "return"
    /\ result' = InvocationResult(t, invocations[t].outcome)
    /\ is_processing' = FALSE
    /\ call' = [op |-> "get_response",
                user_input |-> InvocationInput(t),
                system_prompt |-> <<>>,
                add_to_history |-> invocations[t].add_to_history,
                outcome |-> invocations[t].outcome]
    /\ invocations' = [invocations EXCEPT ![t] = [pc |-> "returned"]]
    /\ UNCHANGED <<conversation_history, messages, n_calls, next_id, n_posts>>
    /\ UNCHANGED not_reply_vars

NextOverlap ==
    \/ \E t \in Invocations, add \in BOOLEAN : StartGetResponse(t, add)
    \/ \E t \in Invocations : RecordUserTurn(t)
    \/ \E t \in Invocations : TrimHistory(t)
    \/ \E t \in Invocations : BuildRequest(t)
    \/ \E t \in Invocations : EnterPost(t)
    \/ \E t \in Invocations, outcome \in PostOutcomes : LeavePost(t, outcome)
    \/ \E t \in Invocations : ResetHistory(t)
    \/ \E t \in Invocations : ReturnResponse(t)

SpecOverlap == InitOverlap /\ [][NextOverlap]_vars

\* llm.py:87-98: a thread calls add_to_history, which appends the turn
StartAddToHistory(t, role) ==
    /\ invocations[t].pc = "idle"
    /\ conversation_history' =
           append_turn(conversation_history, role, TurnText(next_id))
    /\ next_id' = next_id + 1
    /\ n_calls' = n_calls + 1
    /\ invocations' = [invocations EXCEPT ![t] = [pc |-> "trim_added"]]
    /\ UNCHANGED <<is_processing, call, messages, result, n_posts>>
    /\ UNCHANGED not_reply_vars

\* llm.py:252-262: a thread calls clear_history
CallClearHistory(t, keep_system_prompt) ==
    /\ invocations[t].pc = "idle"
    /\ conversation_history' =
           clear_history(conversation_history, keep_system_prompt)
    /\ n_calls' = n_calls + 1
    /\ invocations' = [invocations EXCEPT ![t] = [pc |-> "returned"]]
    /\ UNCHANGED <<is_processing, call, messages, result, next_id, n_posts>>
    /\ UNCHANGED not_reply_vars

NextShared ==
    \/ NextOverlap
    \/ \E t \in Invocations, role \in Roles : StartAddToHistory(t, role)
    \/ \E t \in Invocations, keep \in BOOLEAN : CallClearHistory(t, keep)

SpecShared == InitOverlap /\ [][NextShared]_vars

----------------------------------------------------------------------------
(* DeepgramTranscriber (services/transcription_deepgram.py).  The Deepgram  *)
(* connection is the collaborator: whether listen.v2.connect,               *)
(* start_listening, _send and finish return or raise, and the messages and  *)
(* the close event the connection delivers, are chosen by the environment.  *)
(* SpecDeepgram covers a transcriber that is connected once, either by the  *)
(* application (connect) or by one call of transcribe_async.  The          *)
(* coroutines run on one event loop: each is a step from one await to the   *)
(* next, and while one is suspended the handlers of the connection and the  *)
(* other coroutines (send_audio, disconnect) run.                           *)

\* messages given to _on_message in one behaviour
MaxMessages == 2

\* getattr(message, "type", "Unknown")
MessageTypes == {"Results", "EndOfTurn", "EagerEndOfTurn", "TurnResumed"}

\* message.transcript; <<>> stands for a missing or an empty attribute
Transcripts == {<<>>, <<"h","i">>}

\* the messages the connection delivers; they carry no is_final and no
\* words attribute, and speech_final is set on transcripts only
Messages ==
    {m \in [type : MessageTypes, transcript : Transcripts,
            speech_final : BOOLEAN] :
        m.speech_final => m.transcript /= <<>>}

\* transcription_deepgram.py:172-176
TranscriptMetadata(message) ==
    [type |-> message.type, is_final |-> FALSE,
     speech_final |-> message.speech_final]

\* transcription_deepgram.py:208
EventMetadata(msg_type) == [type |-> msg_type, event_only |-> TRUE]

\* one call of a callback
CallbackCall(text, metadata) == [text |-> text, metadata |-> metadata]

\* metadata.get("speech_final")
SpeechFinal(metadata) ==
    "speech_final" \in DOMAIN metadata /\ metadata.speech_final

\* transcription_deepgram.py:195-196: the calls of the transcript callback
\* made for a message
TranscriptCalls(message, callback) ==
    IF message.transcript /= <<>> /\ callback /= "None"
    THEN <<CallbackCall(message.transcript, TranscriptMetadata(message))>>
    ELSE <<>>

\* transcription_deepgram.py:198-208: the calls of the turn-complete
\* callback made for a message; transcript_raised: the transcript callback
\* raised (196), which the except of line 215 catches
TurnCompleteCalls(message, callback, transcript_raised) ==
    IF callback = "None" THEN <<>>
    ELSE IF message.transcript /= <<>>
    THEN IF message.speech_final /\ ~transcript_raised
         THEN <<CallbackCall(message.transcript, TranscriptMetadata(message))>>
         ELSE <<>>
    ELSE IF message.type \in {"EndOfTurn", "EagerEndOfTurn"}
    THEN <<CallbackCall(<<>>, EventMetadata(message.type))>>
    ELSE <<>>

\* the connection delivers its events to the handlers from the moment they
\* are registered (transcription_deepgram.py:112-115) until it is closed
Delivering ==
    /\ connection /= 0
    /\ connections[connection] \in {"open", "listening"}

\* DeepgramTranscriber._on_message (transcription_deepgram.py:157-216); the
\* callback "on_final" is the closure of transcribe_async (294-299)
OnMessage(message, transcript_raised) ==
    /\ Delivering
    /\ Len(handled) < MaxMessages
    /\ transcript_raised =>
          TranscriptCalls(message, transcript_callback) /= <<>>
    /\ LET calls == TurnCompleteCalls(message, turn_complete_callback,
                                      transcript_raised)
       IN  /\ handled' = Append(handled,
                  [message |-> message,
                   transcript_calls |->
                       TranscriptCalls(message, transcript_callback),
                   turn_complete_calls |-> calls])
           /\ IF /\ turn_complete_callback = "on_final"
                 /\ calls /= <<>>
                 /\ SpeechFinal(calls[1].metadata)
              THEN /\ result_text' = calls[1].text
                   /\ result_metadata' = calls[1].metadata
                   /\ result_event' = TRUE
              ELSE UNCHANGED <<result_text, result_metadata, result_event>>
    /\ UNCHANGED <<connection, connections, stt_is_processing,
                   transcript_callback, turn_complete_callback, stt_calls,
                   ta_pc, ta_ret>>
    /\ UNCHANGED <<stream_vars, llm_vars, session_vars, overlap_vars,
                   segmenter_vars, tts_vars>>

\* DeepgramTranscriber._on_close (transcription_deepgram.py:218-221): the
\* connection reports that its socket was closed
OnClose ==
    /\ Delivering
    /\ connections' = [connections EXCEPT ![connection] = "closed"]
    /\ stt_is_processing' = FALSE
    /\ UNCHANGED <<connection, transcript_callback, turn_complete_callback,
                   handled, stt_calls, ta_pc, result_text, result_metadata,
                   result_event, ta_ret>>
    /\ UNCHANGED <<stream_vars, llm_vars, session_vars, overlap_vars,
                   segmenter_vars, tts_vars>>

\* what the awaited listen.v2.connect and start_listening do
ConnectOutcomes == {"ok", "connect_error", "listen_error"}

\* DeepgramTranscriber.connect (transcription_deepgram.py:92-109), up to
\* its first await: the callbacks are stored and listen.v2.connect is
\* awaited
connect(on_transcript, on_turn_complete) ==
    /\ transcript_callback' = on_transcript
    /\ turn_complete_callback' = on_turn_complete
    /\ UNCHANGED <<connection, connections, stt_is_processing>>

\* transcription_deepgram.py:109-118, from the first await to the second:
\* the connection listen.v2.connect returned is stored, the handlers are
\* registered and start_listening is awaited; with "connect_error"
\* listen.v2.connect raised, which is logged and re-raised (123-125)
connect_opened(outcome) ==
    /\ IF outcome = "ok"
       THEN /\ connections' = Append(connections, "open")
            /\ connection' = Len(connections) + 1
       ELSE UNCHANGED <<connection, connections>>
    /\ UNCHANGED <<stt_is_processing, transcript_callback,
                   turn_complete_callback>>

\* transcription_deepgram.py:118-125, from the second await to the return:
\* start_listening returned and is_processing is set, whatever happened to
\* the connection meanwhile; with "listen_error" start_listening raised,
\* which is logged and re-raised
connect_started(outcome) ==
    /\ IF outcome = "ok"
       THEN /\ stt_is_processing' = TRUE
            /\ connections' =
                   [connections EXCEPT ![connection] =
                       IF @ = "open" THEN "listening" ELSE @]
       ELSE UNCHANGED <<stt_is_processing, connections>>
    /\ UNCHANGED <<connection, transcript_callback, turn_complete_callback>>

\* DeepgramTranscriber.disconnect (transcription_deepgram.py:147-151), from
\* its await to the return: connection.finish returned and is_processing is
\* cleared; with "finish_error" it raised, which is logged
disconnect_finished(outcome) ==
    /\ IF outcome = "ok"
       THEN /\ connections' = [connections EXCEPT ![connection] = "finished"]
            /\ stt_is_processing' = FALSE
       ELSE UNCHANGED <<connections, stt_is_processing>>
    /\ UNCHANGED <<connection, transcript_callback, turn_complete_callback>>

\* what the application's calls and transcribe_async leave alone
not_deepgram_vars == <<stream_vars, llm_vars, session_vars, overlap_vars,
                       segmenter_vars, tts_vars>>

\* the transcriber itself
transcriber_vars == <<connection, connections, stt_is_processing,
                      transcript_callback, turn_complete_callback>>

\* the locals of transcribe_async and what it returned
ta_vars == <<ta_pc, result_text, result_metadata, result_event, ta_ret>>

\* no connect is suspended at one of its awaits
NoConnectInFlight ==
    /\ stt_calls["connect"] \notin {"connecting", "starting"}
    /\ ta_pc \notin {"connecting", "starting"}

\* the application calls connect with its callbacks; the coroutine runs to
\* its first await (transcription_deepgram.py:80-109)
Connect(on_transcript, on_turn_complete) ==
    /\ ta_pc = "idle"
    /\ connection = 0
    /\ NoConnectInFlight
    /\ connect(on_transcript, on_turn_complete)
    /\ stt_calls' = [stt_calls EXCEPT !["connect"] = "connecting"]
    /\ UNCHANGED <<handled, ta_vars>>
    /\ UNCHANGED not_deepgram_vars

\* listen.v2.connect comes back to the connect the application called
\* (transcription_deepgram.py:109-118)
ConnectOpened(outcome) ==
    /\ stt_calls["connect"] = "connecting"
    /\ connect_opened(outcome)
    /\ stt_calls' = [stt_calls EXCEPT !["connect"] =
                        IF outcome = "ok" THEN "starting" ELSE "raised"]
    /\ UNCHANGED <<handled, ta_vars>>
    /\ UNCHANGED not_deepgram_vars

\* start_listening comes back to the connect the application called
\* (transcription_deepgram.py:118-125)
ConnectStarted(outcome) ==
    /\ stt_calls["connect"] = "starting"
    /\ connect_started(outcome)
    /\ stt_calls' = [stt_calls EXCEPT !["connect"] =
                        IF outcome = "ok" THEN "returned" ELSE "raised"]
    /\ UNCHANGED <<handled, ta_vars>>
    /\ UNCHANGED not_deepgram_vars

\* the application calls send_audio (transcription_deepgram.py:127-138):
\* RuntimeError without a connection, else _send is awaited
SendAudio ==
    /\ stt_calls["send_audio"] /= "sending"
    /\ stt_calls' = [stt_calls EXCEPT !["send_audio"] =
                        IF connection = 0 THEN "raised" ELSE "sending"]
    /\ UNCHANGED <<transcriber_vars, handled, ta_vars>>
    /\ UNCHANGED not_deepgram_vars

\* _send comes back to the send_audio the application called
\* (transcription_deepgram.py:138-141); what it raises is re-raised
SendAudioDone(outcome) ==
    /\ stt_calls["send_audio"] = "sending"
    /\ stt_calls' = [stt_calls EXCEPT !["send_audio"] =
                        IF outcome = "ok" THEN "returned" ELSE "raised"]
    /\ UNCHANGED <<transcriber_vars, handled, ta_vars>>
    /\ UNCHANGED not_deepgram_vars

\* the application calls disconnect (transcription_deepgram.py:143-147):
\* without a connection it returns, else connection.finish is awaited
Disconnect ==
    /\ stt_calls["disconnect"] /= "finishing"
    /\ stt_calls' = [stt_calls EXCEPT !["disconnect"] =
                        IF connection = 0 THEN "returned" ELSE "finishing"]
    /\ UNCHANGED <<transcriber_vars, handled, ta_vars>>
    /\ UNCHANGED not_deepgram_vars

\* connection.finish comes back to the disconnect the application called
\* (transcription_deepgram.py:147-151)
DisconnectDone(outcome) ==
    /\ stt_calls["disconnect"] = "finishing"
    /\ disconnect_finished(outcome)
    /\ stt_calls' = [stt_calls EXCEPT !["disconnect"] = "returned"]
    /\ UNCHANGED <<handled, ta_vars>>
    /\ UNCHANGED not_deepgram_vars

\* transcribe_async (transcription_deepgram.py:285-301 with 92-109) called
\* on a transcriber without a connection: the locals are set, connect is
\* called and runs to its first await
TaConnect ==
    /\ ta_pc = "idle"
    /\ connection = 0
    /\ NoConnectInFlight
    /\ connect("None", "on_final")
    /\ result_text' = <<>>
    /\ result_metadata' = <<>>
    /\ result_event' = FALSE
    /\ ta_pc' = "connecting"
    /\ UNCHANGED <<handled, stt_calls, ta_ret>>
    /\ UNCHANGED not_deepgram_vars

\* listen.v2.connect comes back to the connect of transcribe_async
\* (transcription_deepgram.py:109-118); its failure leaves connect and
\* transcribe_async (301)
TaConnectOpened(outcome) ==
    /\ ta_pc = "connecting"
    /\ connect_opened(outcome)
    /\ ta_pc' = IF outcome = "ok" THEN "starting" ELSE "raised"
    /\ UNCHANGED <<handled, stt_calls, result_text, result_metadata,
                   result_event, ta_ret>>
    /\ UNCHANGED not_deepgram_vars

\* start_listening comes back to the connect of transcribe_async
\* (transcription_deepgram.py:118-125), connect returns and send_audio is
\* called and awaits _send (302 with 134-138); a failure of start_listening
\* leaves connect and transcribe_async
TaConnectStarted(outcome) ==
    /\ ta_pc = "starting"
    /\ connect_started(outcome)
    /\ ta_pc' = IF outcome = "ok" THEN "sending" ELSE "raised"
    /\ UNCHANGED <<handled, stt_calls, result_text, result_metadata,
                   result_event, ta_ret>>
    /\ UNCHANGED not_deepgram_vars

\* transcription_deepgram.py:302-306 with 138-141: _send comes back and
\* the wait for the result is entered; a failure of _send leaves send_audio
\* and transcribe_async
TaSendAudio(outcome) ==
    /\ ta_pc = "sending"
    /\ ta_pc' = IF outcome = "ok" THEN "waiting" ELSE "raised"
    /\ UNCHANGED <<transcriber_vars, handled, stt_calls, result_text,
                   result_metadata, result_event, ta_ret>>
    /\ UNCHANGED not_deepgram_vars

\* transcription_deepgram.py:306-310 with 145-147: the wait is over,
\* because the event was set or because the 10 seconds passed, disconnect
\* is called and awaits connection.finish
TaWaitOver(timed_out) ==
    /\ ta_pc = "waiting"
    /\ timed_out = ~result_event
    /\ ta_pc' = "finishing"
    /\ UNCHANGED <<transcriber_vars, handled, stt_calls, result_text,
                   result_metadata, result_event, ta_ret>>
    /\ UNCHANGED not_deepgram_vars

\* transcription_deepgram.py:310-312 with 147-151: connection.finish comes
\* back, disconnect returns and the result is returned
TaFinish(outcome) ==
    /\ ta_pc = "finishing"
    /\ disconnect_finished(outcome)
    /\ ta_pc' = "returned"
    /\ ta_ret' = <<result_text, result_metadata>>
    /\ UNCHANGED <<handled, stt_calls, result_text, result_metadata,
                   result_event>>
    /\ UNCHANGED not_deepgram_vars

Callbacks == {"None", "app"}

NextDeepgram ==
    \/ \E on_transcript \in Callbacks, on_turn_complete \in Callbacks :
          Connect(on_transcript, on_turn_complete)
    \/ \E outcome \in {"ok", "connect_error"} : ConnectOpened(outcome)
    \/ \E outcome \in {"ok", "listen_error"} : ConnectStarted(outcome)
    \/ SendAudio
    \/ \E outcome \in {"ok", "send_error"} : SendAudioDone(outcome)
    \/ Disconnect
    \/ \E outcome \in {"ok", "finish_error"} : DisconnectDone(outcome)
    \/ \E message \in Messages, transcript_raised \in BOOLEAN :
          OnMessage(message, transcript_raised)
    \/ OnClose
    \/ TaConnect
    \/ \E outcome \in {"ok", "connect_error"} : TaConnectOpened(outcome)
    \/ \E outcome \in {"ok", "listen_error"} : TaConnectStarted(outcome)
    \/ \E outcome \in {"ok", "send_error"} : TaSendAudio(outcome)
    \/ \E timed_out \in BOOLEAN : TaWaitOver(timed_out)
    \/ \E outcome \in {"ok", "finish_error"} : TaFinish(outcome)

SpecDeepgram == InitDeepgram /\ [][NextDeepgram]_vars

----------------------------------------------------------------------------
(* Vocabulary of the properties *)

RECURSIVE Concat(_)
\* the tokens of a stream joined in arrival order
Concat(tokens) ==
    IF tokens = <<>> THEN <<>> ELSE Head(tokens) \o Concat(Tail(tokens))

Prefix(seq, k) == SubSeq(seq, 1, k)

RemoveChars(s, drop) == SelectSeq(s, LAMBDA c : c \notin drop)

\* the marker is in the text once it is uppercased and its spaces removed
MarkerSeen(t) == str_contains(NO_REPLY, RemoveChars(str_upper(t), {" "}))

\* the marker is in the text once it is uppercased and all its whitespace
\* (spaces, tabs, newlines) removed
MarkerSeenAllWs(t) ==
    str_contains(NO_REPLY, RemoveChars(str_upper(t), Whitespace))

Chunks(msgs) == SelectSeq(msgs, LAMBDA m : m.type = "TTS_CHUNK")

\* the run is past TTS_START and on its normal path: it awaits a token, a
\* synthesis, or the send of a chunk or of one of its two last messages
Running == pc \in {"await_token", "await_tts", "send_chunk",
                   "await_final_tts", "send_final_chunk", "send_end",
                   "send_response"}

\* a synthesis was requested and its chunk is neither sent nor given up
Pending == IF pc \in {"await_tts", "send_chunk", "await_final_tts",
                      "send_final_chunk"}
           THEN 1 ELSE 0

\* the last message sent is the LLM_RESPONSE of the NO_REPLY branch
NoReplySent ==
    /\ sent /= <<>>
    /\ sent[Len(sent)].type = "LLM_RESPONSE"
    /\ "no_reply" \in DOMAIN sent[Len(sent)].metadata

\* the last message sent is the LLM_RESPONSE of the normal end
NormalResponseSent ==
    /\ sent /= <<>>
    /\ sent[Len(sent)].type = "LLM_RESPONSE"
    /\ "streaming" \in DOMAIN sent[Len(sent)].metadata

----------------------------------------------------------------------------
(* C1: a run that returns (normal end or NO_REPLY abort) has sent exactly:  *)
(* TTS_START first, then only TTS_CHUNK messages, then one TTS_END, then    *)
(* one LLM_RESPONSE last; and at no point of any run is a TTS_CHUNK sent    *)
(* before TTS_START or after TTS_END.                                       *)
C1_EventOrder ==
    /\ pc = "done" =>
          LET n == Len(sent)
          IN  /\ n >= 3
              /\ sent[1].type = "TTS_START"
              /\ \A i \in 2..(n - 2) : sent[i].type = "TTS_CHUNK"
              /\ sent[n - 1].type = "TTS_END"
              /\ sent[n].type = "LLM_RESPONSE"
    /\ \A i \in 1..Len(sent) :
          sent[i].type = "TTS_CHUNK" =>
              /\ sent[1].type = "TTS_START"
              /\ \A j \in 1..i : sent[j].type /= "TTS_END"

\* a returned run with two chunks between TTS_START and TTS_END
C1_Witness ==
    /\ pc = "done"
    /\ Len(sent) = 5
    /\ Len(Chunks(sent)) = 2

(* C2 as stated: the sentence_num of the i-th TTS_CHUNK sent is i, whatever *)
(* syntheses succeeded or failed.                                           *)
C2_NoGaps ==
    \A i \in 1..Len(Chunks(sent)) : Chunks(sent)[i].sentence_num = i

(* C2 amended: the sentence_num values of the chunks sent are strictly      *)
(* increasing and each is the ordinal of the synthesis request whose audio  *)
(* the chunk carries (sentence_count when it was requested); a sentence     *)
(* whose synthesis or send failed sends no chunk and its number is skipped, *)
(* so the numbers are 1, 2, 3, ... whenever no sentence has failed.         *)
C2_NumbersFollowSentences ==
    LET ch == Chunks(sent)
    IN  /\ \A i \in 1..Len(ch) :
              /\ ch[i].sentence_num \in 1..(Len(tts_calls) - Pending)
              /\ ch[i].audio_chunk =
                     b64encode(async_text_to_speech(tts_calls[ch[i].sentence_num]))
        /\ \A i \in 1..(Len(ch) - 1) :
              ch[i].sentence_num < ch[i + 1].sentence_num
        /\ (Len(ch) = Len(tts_calls) - Pending) =>
              (\A i \in 1..Len(ch) : ch[i].sentence_num = i)

\* the first sentence failed and the second was sent: the first chunk is 2
C2_Witness ==
    /\ Len(Chunks(sent)) >= 1
    /\ Chunks(sent)[1].sentence_num = 2

(* C3: from the token on which the marker is detected, no further token is  *)
(* consumed, no synthesis is requested and no TTS_CHUNK is sent; the        *)
(* detecting token itself requests no synthesis although it may complete a  *)
(* sentence, and once the marker is in the text the run has only the two    *)
(* sends of the abort left.                                                 *)
C3_NothingAfterAbort ==
    /\ [](MarkerSeen(full_response) =>
            pc \in {"send_abort_end", "send_abort_response", "done",
                    "raised"})
    /\ [][MarkerSeen(full_response') =>
            /\ tts_calls' = tts_calls
            /\ Chunks(sent') = Chunks(sent)
            /\ sentence_count' = sentence_count
            /\ (MarkerSeen(full_response) => consumed' = consumed)]_vars

\* the detecting token also completed an actionable sentence
C3_Witness ==
    /\ NoReplySent
    /\ SentenceReady(buffer)
    /\ Len(consumed) >= 2

(* C4 as stated: a run whose final LLM_RESPONSE carries no_reply has sent   *)
(* no TTS_CHUNK at all.                                                     *)
C4_NoAudioOnAbort == NoReplySent => Chunks(sent) = <<>>

(* C5 as stated: the abort fires at the first token after which the text,   *)
(* uppercased and with all whitespace removed, contains NO_REPLY, and at no *)
(* earlier token.                                                           *)
C5_AbortOnAllWhitespace ==
    /\ (Running \/ NormalResponseSent) => ~MarkerSeenAllWs(full_response)
    /\ NoReplySent =>
          /\ MarkerSeenAllWs(full_response)
          /\ \A k \in 0..(Len(consumed) - 1) :
                ~MarkerSeenAllWs(Concat(Prefix(consumed, k)))

(* C5 amended: the abort fires at the first token after which the text,     *)
(* uppercased and with its space characters removed (tabs and newlines are  *)
(* kept), contains NO_REPLY, and at no earlier token; the test is           *)
(* case-insensitive and over the whole accumulated text.                    *)
C5_AbortOnSpaces ==
    /\ (Running \/ NormalResponseSent) => ~MarkerSeen(full_response)
    /\ NoReplySent =>
          /\ MarkerSeen(full_response)
          /\ full_response = Concat(consumed)
          /\ \A k \in 0..(Len(consumed) - 1) :
                ~MarkerSeen(Concat(Prefix(consumed, k)))

\* an abort on a marker that is in the text only after case folding and
\* the removal of a space
C5_Witness ==
    /\ NoReplySent
    /\ ~str_contains(NO_REPLY, str_upper(full_response))
    /\ Len(consumed) >= 3

(* C6 as stated: on an abort the last two messages are TTS_END carrying     *)
(* total_sentences = sentence_count, then LLM_RESPONSE with the accumulated *)
(* text and no_reply = true.                                                *)
C6_AbortTtsEndCarriesCount ==
    NoReplySent =>
        LET n == Len(sent)
        IN  /\ n >= 2
            /\ sent[n - 1].type = "TTS_END"
            /\ "total_sentences" \in DOMAIN sent[n - 1]
            /\ sent[n - 1].total_sentences = sentence_count
            /\ sent[n].text = full_response
            /\ sent[n].metadata.no_reply = TRUE

(* C7 as stated: when the language model fails after TTS_START was sent, a  *)
(* TTS_END has been sent by the time the run is over.                       *)
C7_StartPairedOnLlmFailure ==
    (pc = "raised" /\ raised \in LlmErrors) =>
        \A i \in 1..Len(sent) :
            sent[i].type = "TTS_START" =>
                \E j \in (i + 1)..Len(sent) : sent[j].type = "TTS_END"

(* C8 as stated: no failure of the language model leaves the reply          *)
(* operation as a raised fault; the run ends with a response carrying an    *)
(* apology text.                                                            *)
C8_LlmFailureNeverRaised ==
    pc = "raised" => raised \notin LlmErrors

(* C9: a token that does not abort takes a sentence boundary iff            *)
(* is_sentence_complete holds of the buffer with the token appended and the *)
(* trimmed buffer is longer than 10 characters; then the buffer is emptied, *)
(* sentence_count grows by one and the trimmed buffer is the text handed to *)
(* synthesis; otherwise the token is appended to the buffer and             *)
(* sentence_count, the synthesis requests and the messages sent stay.       *)
C9_SentenceBoundary ==
    [][(consumed' /= consumed /\ ~MarkerSeen(full_response')) =>
          LET buf == buffer \o consumed'[Len(consumed')]
          IN  IF is_sentence_complete(buf) /\ Len(strip(buf)) > 10
              THEN /\ buffer' = <<>>
                   /\ sentence_count' = sentence_count + 1
                   /\ tts_calls' = Append(tts_calls, strip(buf))
                   /\ sent' = sent
              ELSE /\ buffer' = buf
                   /\ sentence_count' = sentence_count
                   /\ tts_calls' = tts_calls
                   /\ sent' = sent]_vars

\* after one boundary was taken, a complete sentence of exactly 10
\* characters is left in the buffer
C9_Witness ==
    /\ pc = "await_token"
    /\ sentence_count = 1
    /\ is_sentence_complete(buffer)
    /\ Len(strip(buffer)) = 10

(* C10: a synthesis failure never ends the reply: no run is left by a       *)
(* synthesis fault; when a mid-stream synthesis or the send of its chunk    *)
(* comes back, failed or not, the run goes on to the next token with its    *)
(* state kept; when the final synthesis or the send of its chunk comes      *)
(* back, failed or not, the run goes on to the send of TTS_END; and a run   *)
(* that returns on its normal path has sent TTS_END then LLM_RESPONSE with  *)
(* the full accumulated text.                                               *)
C10_SynthesisFailureSkipped ==
    /\ [](pc = "raised" => raised \in LlmErrors \cup {"websocket"})
    /\ []((pc = "done" /\ NormalResponseSent) =>
            /\ sent[Len(sent) - 1] = [type |-> "TTS_END",
                                      total_sentences |-> sentence_count]
            /\ sent[Len(sent)].text = Concat(consumed)
            /\ ret = Concat(consumed))
    /\ [][/\ pc = "await_tts" => pc' \in {"send_chunk", "await_token"}
          /\ pc = "send_chunk" => pc' = "await_token"
          /\ pc = "await_final_tts" => pc' \in {"send_final_chunk", "send_end"}
          /\ pc = "send_final_chunk" => pc' = "send_end"
          /\ pc \in {"await_tts", "send_chunk", "await_final_tts",
                     "send_final_chunk"} =>
                /\ raised' = "none"
                /\ <<buffer', full_response', sentence_count', consumed'>> =
                   <<buffer, full_response, sentence_count, consumed>>]_vars

\* a returned run in which the first sentence failed, a later one was sent
\* and the response carries the whole text
C10_Witness ==
    /\ pc = "done"
    /\ NormalResponseSent
    /\ Len(tts_calls) = 3
    /\ Len(Chunks(sent)) = 2
    /\ Chunks(sent)[1].sentence_num = 2
    /\ sent[Len(sent)].text = Concat(consumed)

----------------------------------------------------------------------------
(* Vocabulary of the end-of-stream properties *)

IsFinalChunk(m) ==
    m.type = "TTS_CHUNK" /\ "is_final" \in DOMAIN m /\ m.is_final = TRUE

\* the step in which the token stream ends normally
StreamEndStep ==
    /\ pc = "await_token"
    /\ pc' /= "await_token"
    /\ consumed' = consumed
    /\ raised' \notin LlmErrors

RECURSIVE Segment(_, _, _)
\* the tokens replayed through the sentence check: <<boundaries taken, buffer
\* left>>, starting from count n and buffer buf
Segment(tokens, n, buf) ==
    IF tokens = <<>> THEN <<n, buf>>
    ELSE LET b == buf \o Head(tokens)
         IN  IF is_sentence_complete(b) /\ Len(strip(b)) > 10
             THEN Segment(Tail(tokens), n + 1, <<>>)
             ELSE Segment(Tail(tokens), n, b)

(* C11 as stated: when the token stream ends normally with a non-empty      *)
(* buffer, a whitespace-only buffer included, sentence_count is incremented *)
(* and the buffer goes to synthesis for a last chunk.                       *)
C11_FlushNonEmptyBuffer ==
    [][(StreamEndStep /\ buffer /= <<>>) =>
          /\ sentence_count' = sentence_count + 1
          /\ Len(tts_calls') = Len(tts_calls) + 1
          /\ pc' = "await_final_tts"]_vars

(* C11 amended: when the token stream ends normally and the buffer holds    *)
(* text other than whitespace (a short sentence of at most 10 characters    *)
(* included), sentence_count is incremented and the trimmed buffer is       *)
(* handed to synthesis; if synthesis and send succeed it is sent as one     *)
(* last TTS_CHUNK with is_final = true and that sentence number, and if     *)
(* they fail no chunk is sent.  When the buffer is empty or holds only      *)
(* whitespace nothing is counted, synthesized or sent as a chunk.           *)
C11_FlushRemainingText ==
    /\ [][StreamEndStep =>
            IF strip(buffer) /= <<>>
            THEN /\ sentence_count' = sentence_count + 1
                 /\ tts_calls' = Append(tts_calls, strip(buffer))
                 /\ pc' = "await_final_tts"
                 /\ sent' = sent
            ELSE /\ sentence_count' = sentence_count
                 /\ tts_calls' = tts_calls
                 /\ Chunks(sent') = Chunks(sent)]_vars
    /\ [][/\ pc = "await_final_tts" => sent' = sent
          /\ pc = "send_final_chunk" =>
                \/ sent' = sent
                \/ sent' = Append(sent,
                       [type |-> "TTS_CHUNK",
                        audio_chunk |->
                            b64encode(async_text_to_speech(strip(buffer))),
                        format |-> output_format,
                        sentence_num |-> sentence_count,
                        is_final |-> TRUE])]_vars

\* a short sentence that was never a boundary, flushed as the final chunk
\* in the format of a client that was not built with the default one
C11_Witness ==
    /\ NormalResponseSent
    /\ Len(strip(buffer)) \in 1..10
    /\ is_sentence_complete(buffer)
    /\ Chunks(sent) /= <<>>
    /\ IsFinalChunk(Chunks(sent)[Len(Chunks(sent))])
    /\ output_format = "wav"
    /\ Chunks(sent)[Len(Chunks(sent))].format = "wav"

(* C12: at most one TTS_CHUNK carries is_final = true and it is the last    *)
(* chunk; no chunk is final while tokens are still being consumed; a reply  *)
(* whose last token lands on an actionable boundary ends with TTS_END and   *)
(* no final chunk.                                                          *)
C12_OneFinalChunk ==
    LET ch == Chunks(sent)
    IN  /\ \A i \in 1..Len(ch) : IsFinalChunk(ch[i]) => i = Len(ch)
        /\ pc \in {"await_token", "await_tts", "send_chunk",
                   "await_final_tts", "send_final_chunk"} =>
              \A i \in 1..Len(ch) : ~IsFinalChunk(ch[i])
        /\ (NormalResponseSent /\ buffer = <<>>) =>
              \A i \in 1..Len(ch) : ~IsFinalChunk(ch[i])
        /\ \A i \in 1..Len(ch) :
              IsFinalChunk(ch[i]) =>
                  /\ pc \in {"send_end", "send_response", "done", "raised"}
                  /\ ch[i].sentence_num = sentence_count
                  /\ tts_calls[Len(tts_calls)] = strip(buffer)

\* the last token completed a sentence: its chunk was sent, none is final
C12_Witness ==
    /\ NormalResponseSent
    /\ buffer = <<>>
    /\ Len(consumed) >= 2
    /\ Len(Chunks(sent)) = sentence_count
    /\ sentence_count >= 1

(* C13: in a run that is not aborted TTS_END.total_sentences and            *)
(* LLM_RESPONSE.metadata.sentences both equal the final sentence_count,     *)
(* which is the number of boundaries taken mid-stream plus one if the       *)
(* end-of-stream flush happened; failed sentences are counted, so it is at  *)
(* least the number of chunks sent and at least every sentence number sent. *)
C13_TotalSentences ==
    NormalResponseSent =>
        LET n == Len(sent)
            seg == Segment(consumed, 0, <<>>)
            flush == IF strip(seg[2]) /= <<>> THEN 1 ELSE 0
        IN  /\ sent[n - 1].type = "TTS_END"
            /\ sent[n - 1].total_sentences = sentence_count
            /\ sent[n].metadata.sentences = sentence_count
            /\ sentence_count = seg[1] + flush
            /\ sentence_count >= Len(Chunks(sent))
            /\ \A i \in 1..Len(Chunks(sent)) :
                  Chunks(sent)[i].sentence_num <= sentence_count

\* a boundary and a flush were counted although one synthesis failed
C13_Witness ==
    /\ NormalResponseSent
    /\ sentence_count = 2
    /\ Len(Chunks(sent)) = 1
    /\ strip(buffer) /= <<>>

----------------------------------------------------------------------------
(* Vocabulary of the history properties *)

\* the step is a call of the named LLMClient method; for get_response it
\* is the step from the call to the request
CallStep(op) == n_calls' = n_calls + 1 /\ call'.op = op

\* the step is the return of a get_response call with one of the given
\* outcomes; call.history is the history the call found
ReplyStep(outcomes) ==
    /\ call.op = "get_response"
    /\ call.outcome = "pending"
    /\ call'.outcome \in outcomes

\* index 0 of the history holds a system turn
LeadsWithSystem(h) == h /= <<>> /\ h[1].role = "system"

(* C14: the history never holds more than maxTurns (50) turns, and an       *)
(* append (add_to_history) leaves a system turn that is at index 0, the     *)
(* first turn ever appended, at index 0.                                    *)
C14_BoundedAndPinned ==
    /\ [](Len(conversation_history) <= 50)
    /\ [][CallStep("add_to_history") =>
            /\ Len(conversation_history') <= 50
            /\ LeadsWithSystem(conversation_history) =>
                  conversation_history'[1] = conversation_history[1]
            /\ (conversation_history = <<>> /\ call'.role = "system") =>
                  conversation_history'[1] = Turn("system", call'.content)]_vars

\* two appends to a full history: the system turn appended first is still
\* at index 0 and the two oldest other turns are gone
C14_Witness ==
    /\ call.op = "add_to_history"
    /\ n_calls = 2
    /\ Len(conversation_history) = 50
    /\ conversation_history[1] = Turn("system", TurnText(1))
    /\ conversation_history[2].content = TurnText(4)
    /\ conversation_history[50].content = TurnText(52)

(* C15 as stated: once index 0 holds a system turn it stays at index 0      *)
(* after every operation: append, eviction, clear with either value of      *)
(* keep_system_prompt, and the error-recovery reset.                        *)
C15_PinnedForLifetime ==
    [][LeadsWithSystem(conversation_history) =>
          /\ conversation_history' /= <<>>
          /\ conversation_history'[1] = conversation_history[1]]_vars

(* C15 amended: once index 0 holds a system turn it stays at index 0 after  *)
(* any append, eviction, clear(keep_system_prompt=true), get_response in    *)
(* every outcome and the error-recovery reset; clear with                   *)
(* keep_system_prompt=false removes it and leaves the history empty.        *)
C15_PinnedUnlessDropped ==
    [][LeadsWithSystem(conversation_history) =>
          IF CallStep("clear_history") /\ ~call'.keep_system_prompt
          THEN conversation_history' = <<>>
          ELSE /\ conversation_history' /= <<>>
               /\ conversation_history'[1] = conversation_history[1]]_vars

\* the reset after an HTTP 400 left exactly the system turn of a full history
C15_Witness ==
    /\ call.op = "get_response"
    /\ call.outcome = "http_400"
    /\ call.add_to_history
    /\ conversation_history = <<Turn("system", TurnText(1))>>
    /\ Len(messages) >= 50

\* the turns of h at the indices outside R, in their order
Without(h, R) ==
    LET F[i \in 0..Len(h)] ==
            IF i = 0 THEN <<>>
            ELSE IF i \in R THEN F[i - 1] ELSE Append(F[i - 1], h[i])
    IN  F[Len(h)]

(* C16: when appends make the history exceed maxTurns, the turns removed    *)
(* are the oldest non-system turns: the turns that remain keep their order, *)
(* every remaining turn older than a removed turn is a system turn, the     *)
(* system turn at index 0 is never removed, and nothing is removed unless   *)
(* the history is left with maxTurns turns; one append to a full history    *)
(* removes exactly one turn.                                                *)
C16_OldestEvicted ==
    [][((CallStep("add_to_history") \/ ReplyStep(PostOutcomes))
        /\ ~(call'.op = "get_response" /\ call'.outcome = "http_400"
             /\ call'.add_to_history)) =>
          LET h == IF call'.op = "get_response" THEN call.history
                   ELSE conversation_history
              g == conversation_history'
          IN  \E R \in SUBSET (1..3) :
                /\ R \subseteq 1..Len(h)
                /\ Len(g) >= Len(h) - Cardinality(R)
                /\ SubSeq(g, 1, Len(h) - Cardinality(R)) = Without(h, R)
                /\ R /= {} => Len(g) = 50
                /\ 1 \in R => h[1].role /= "system"
                /\ \A k \in R : \A j \in 1..(k - 1) :
                      j \notin R => h[j].role = "system"
                /\ call'.op = "add_to_history" =>
                      /\ Cardinality(R) = (IF Len(h) = 50 THEN 1 ELSE 0)
                      /\ Len(g) = Len(h) + 1 - Cardinality(R)]_vars

\* a request recorded in a full history whose second turn is a system turn:
\* the first turn goes, then the turn after the system turn
C16_Witness ==
    /\ call.op = "get_response"
    /\ call.outcome = "ok"
    /\ Len(conversation_history) = 50
    /\ conversation_history[1] = Turn("system", TurnText(2))
    /\ conversation_history[2].content = TurnText(4)

(* C17: add_to_history(role, content) puts the new turn at the end; if the  *)
(* length then exceeds maxTurns the result is exactly the leading system    *)
(* turn followed by the most recent maxTurns-1 turns when index 0 is a      *)
(* system turn, and exactly the most recent maxTurns turns otherwise, so an *)
(* append to a full history leaves maxTurns turns and removes exactly one.  *)
C17_AppendResult ==
    [][CallStep("add_to_history") =>
          LET h == conversation_history
              g == conversation_history'
              t == Turn(call'.role, call'.content)
              f == h \o <<t>>
              n == Len(h) + 1
          IN  /\ g[Len(g)] = t
              /\ IF n > 50
                 THEN /\ IF f[1].role = "system"
                         THEN g = <<f[1]>> \o SubSeq(f, n - 48, n)
                         ELSE g = SubSeq(f, n - 49, n)
                      /\ Len(g) = 50
                      /\ Len(g) = Len(h)
                 ELSE g = f]_vars

\* an append to a full history that is not led by a system turn
C17_Witness ==
    /\ call.op = "add_to_history"
    /\ n_calls = 1
    /\ Len(conversation_history) = 50
    /\ conversation_history[1].content = TurnText(2)
    /\ conversation_history[50] = Turn(call.role, TurnText(51))

(* C18: clear_history(keep_system_prompt=true) on a history whose index 0   *)
(* is a system turn leaves exactly that turn; on a history without a        *)
(* leading system turn, and with keep_system_prompt=false on any history,   *)
(* it leaves the history empty; a second identical clear changes nothing.   *)
C18_ClearResult ==
    /\ [][CallStep("clear_history") =>
            IF call'.keep_system_prompt /\ LeadsWithSystem(conversation_history)
            THEN conversation_history' = <<conversation_history[1]>>
            ELSE conversation_history' = <<>>]_vars
    /\ [][(CallStep("clear_history") /\ call.op = "clear_history"
           /\ call'.keep_system_prompt = call.keep_system_prompt) =>
            conversation_history' = conversation_history]_vars

\* a clear that kept the system turn of a history led by two system turns
C18_Witness ==
    /\ call.op = "clear_history"
    /\ call.keep_system_prompt
    /\ n_calls = 2
    /\ conversation_history = <<Turn("system", TurnText(1))>>

(* C19 as stated: the messages of a request are the system prompt if one is *)
(* supplied, then the history in order, with the new user turn as the last  *)
(* message, added exactly once: through the history when add_to_history is  *)
(* true, after the history when it is false.                                *)
C19_UserTurnLast ==
    [][CallStep("get_response") =>
          LET u == Turn("user", call'.user_input)
              p == IF call'.system_prompt /= <<>>
                   THEN <<Turn("system", call'.system_prompt)>> ELSE <<>>
          IN  messages' =
                  p \o (IF call'.add_to_history
                        THEN add_to_history(conversation_history, "user",
                                            call'.user_input)
                        ELSE conversation_history \o <<u>>)]_vars

(* C19 amended: as C19 when the user input holds text other than            *)
(* whitespace; for an empty or whitespace-only input no user turn is added  *)
(* at all and the messages are the system prompt, if supplied, followed by  *)
(* the history.                                                             *)
C19_UserTurnLastUnlessBlank ==
    [][CallStep("get_response") =>
          LET u == Turn("user", call'.user_input)
              p == IF call'.system_prompt /= <<>>
                   THEN <<Turn("system", call'.system_prompt)>> ELSE <<>>
              blank == \A i \in 1..Len(call'.user_input) :
                           call'.user_input[i] \in Whitespace
          IN  messages' =
                  p \o (IF blank THEN conversation_history
                        ELSE IF call'.add_to_history
                        THEN add_to_history(conversation_history, "user",
                                            call'.user_input)
                        ELSE conversation_history \o <<u>>)]_vars

\* a request with a system prompt and a transient user turn after a full
\* history
C19_Witness ==
    /\ call.op = "get_response"
    /\ ~call.add_to_history
    /\ Len(messages) = 52
    /\ messages[1].role = "system"
    /\ messages[52] = Turn("user", <<"h","i">>)
    /\ messages[2] = conversation_history[1]

(* C20 as stated: get_response with add_to_history=false leaves the history *)
(* as it was in every outcome: success, transport error, bad request,       *)
(* unknown error.                                                           *)
C20_NoAddNoMutation ==
    [][/\ (CallStep("get_response") /\ ~call'.add_to_history) =>
             conversation_history' = conversation_history
       /\ (ReplyStep(PostOutcomes) /\ ~call'.add_to_history) =>
             conversation_history' = call.history]_vars

----------------------------------------------------------------------------
(* Vocabulary of the reply properties *)

\* a synthesis was requested and has neither returned nor raised yet
SynthesisInFlight == pc \in {"await_tts", "await_final_tts"}

(* C27: sentence synthesis is awaited inline: a synthesis is only started   *)
(* when no synthesis is in flight and no chunk is waiting to be sent, one   *)
(* step starts at most one, and from the start of a synthesis until its     *)
(* chunk is sent or given up no step of the run takes a token from the      *)
(* stream or starts another synthesis.                                      *)
C27_SynthesisInline ==
    [][/\ Len(tts_calls') <= Len(tts_calls) + 1
       /\ Len(tts_calls') > Len(tts_calls) =>
             (Pending = 0 /\ SynthesisInFlight')
       /\ Pending = 1 =>
             /\ consumed' = consumed
             /\ tts_calls' = tts_calls
             /\ ~SynthesisInFlight'
             /\ Len(Chunks(sent')) <= Len(Chunks(sent)) + 1]_vars

\* the second sentence of a run is being synthesized after two tokens
C27_Witness ==
    /\ pc = "await_tts"
    /\ Len(tts_calls) = 2
    /\ Len(consumed) = 2
    /\ Len(Chunks(sent)) = 1

(* C30: the text of the last LLM_RESPONSE, of the normal end or of the      *)
(* NO_REPLY branch, and the value the function returns are the tokens       *)
(* consumed in the run joined in arrival order, whatever sentences were     *)
(* cut and whichever syntheses failed.                                      *)
C30_TextIsAllTokens ==
    /\ (sent /= <<>> /\ sent[Len(sent)].type = "LLM_RESPONSE") =>
          sent[Len(sent)].text = Concat(consumed)
    /\ pc = "done" =>
          /\ ret = Concat(consumed)
          /\ sent[Len(sent)].type = "LLM_RESPONSE"

\* a run of three tokens returned; its first sentence was cut and failed to
\* synthesize, its text ends in whitespace that no sentence kept
C30_Witness ==
    /\ pc = "done"
    /\ Len(consumed) = 3
    /\ sentence_count = 1
    /\ Chunks(sent) = <<>>
    /\ ret = Concat(consumed)
    /\ ret /= strip(ret)
    /\ sent[Len(sent)].text = ret

----------------------------------------------------------------------------
(* Vocabulary of the get_response properties *)

\* the text holds a character that is not whitespace
NonBlank(t) == \E i \in 1..Len(t) : t[i] \notin Whitespace

\* the turns the call of this step appends before the request is made
UserTurns ==
    IF call'.add_to_history /\ NonBlank(call'.user_input)
    THEN <<Turn("user", call'.user_input)>> ELSE <<>>

\* g is h with the turns new appended, after the eviction of the oldest
\* turns that are not a system turn at index 0 when maxTurns is exceeded
AppendedWithEviction(h, new, g) ==
    \E R \in SUBSET (1..3) :
        /\ R \subseteq 1..Len(h)
        /\ g = Without(h, R) \o new
        /\ Len(h) + Len(new) - Cardinality(R) =
              (IF Len(h) + Len(new) > 50 THEN 50 ELSE Len(h) + Len(new))
        /\ 1 \in R => h[1].role /= "system"
        /\ \A k \in R : \A j \in 1..(k - 1) :
              j \notin R => h[j].role = "system"

(* C22 as stated: on a transport failure (network error, timeout, HTTP      *)
(* error other than 400) exactly one request is issued, the result is one   *)
(* apology flagged as an error, and the apology is appended as an assistant *)
(* turn if and only if add_to_history is true, all earlier turns staying in *)
(* place.                                                                   *)
C22_TransportFailure ==
    [][/\ CallStep("get_response") => n_posts' = n_posts + 1
       /\ ReplyStep({"transport", "http_500"}) =>
             /\ n_posts' = n_posts
             /\ "error" \in DOMAIN result'
             /\ NonBlank(result'.text)
             /\ conversation_history' =
                   IF call'.add_to_history
                   THEN call.history \o UserTurns
                           \o <<Turn("assistant", result'.text)>>
                   ELSE call.history]_vars

(* C22 amended: as C22, except that the earlier turns stay in place apart   *)
(* from the oldest ones, which are evicted when the appended turns make the *)
(* history exceed maxTurns.                                                 *)
C22_TransportFailureWithEviction ==
    [][/\ CallStep("get_response") => n_posts' = n_posts + 1
       /\ ReplyStep({"transport", "http_500"}) =>
             /\ n_posts' = n_posts
             /\ "error" \in DOMAIN result'
             /\ NonBlank(result'.text)
             /\ IF call'.add_to_history
                THEN AppendedWithEviction(call.history,
                         UserTurns \o <<Turn("assistant", result'.text)>>,
                         conversation_history')
                ELSE conversation_history' = call.history]_vars

\* a recorded request that failed with HTTP 500 on a full history: one
\* request made, the user turn and the apology are the last two turns
C22_Witness ==
    /\ call.op = "get_response"
    /\ call.outcome = "http_500"
    /\ call.add_to_history
    /\ n_calls = 1
    /\ n_posts = 1
    /\ Len(conversation_history) = 50
    /\ conversation_history[49] = Turn("user", <<"h","i">>)
    /\ conversation_history[50] = Turn("assistant", result.text)
    /\ conversation_history[1].content = TurnText(1)

\* the messages of the request of this step hold no user or assistant turn
\* but the new user turn
OnlyNewUserTurn ==
    \A i \in 1..Len(messages') :
        messages'[i].role \in {"user", "assistant"} =>
            /\ i = Len(messages')
            /\ messages'[i] = Turn("user", call'.user_input)

(* C23 as stated: after an HTTP 400 failure of a reply with                 *)
(* add_to_history=true the history is exactly the leading system turn if    *)
(* one was at index 0, and empty otherwise, so the messages of the next     *)
(* reply hold no user or assistant turn from before the failure.            *)
C23_ResetToLeadingSystem ==
    [][/\ (ReplyStep({"http_400"}) /\ call'.add_to_history) =>
             conversation_history' =
                 IF LeadsWithSystem(call.history)
                 THEN <<call.history[1]>> ELSE <<>>
       /\ (CallStep("get_response") /\ call.op = "get_response"
           /\ call.outcome = "http_400" /\ call.add_to_history) =>
             OnlyNewUserTurn]_vars

\* the turn at index 0 when the reset runs: the user turn and the apology
\* were appended, and each eviction they caused removed the turn at index 0
\* unless that was a system turn
TurnAtResetIndex ==
    LET h == call.history
        e == Len(h) + Len(UserTurns) + 1 - 50
        first == IF e > 0 THEN 1..(e + 1) ELSE {1}
        sys == {j \in first : j <= Len(h) /\ h[j].role = "system"}
        k == IF sys = {} THEN SeqMax(first) ELSE SeqMin(sys)
    IN  IF k <= Len(h) /\ h[k].role = "system" THEN <<h[k]>> ELSE <<>>

(* C23 amended: after an HTTP 400 failure of a reply with                   *)
(* add_to_history=true the history is exactly the system turn that is at    *)
(* index 0 when the reset runs, and empty if that turn is not a system      *)
(* turn: the leading system turn if one was at index 0, otherwise a system  *)
(* turn that the eviction caused by the failed user turn and the apology    *)
(* moved to index 0 of a full history; the messages of the next reply hold  *)
(* no user or assistant turn from before the failure.                       *)
C23_ResetToSystemAtIndex0 ==
    [][/\ (ReplyStep({"http_400"}) /\ call'.add_to_history) =>
             /\ conversation_history' = TurnAtResetIndex
             /\ LeadsWithSystem(call.history) =>
                   conversation_history' = <<call.history[1]>>
       /\ (CallStep("get_response") /\ call.op = "get_response"
           /\ call.outcome = "http_400" /\ call.add_to_history) =>
             OnlyNewUserTurn]_vars

\* the request that follows an HTTP 400 failure on a full history: its
\* messages are the kept system turn and the new user turn
C23_Witness ==
    /\ n_posts = 2
    /\ next_id = 51
    /\ call.op = "get_response"
    /\ call.outcome = "ok"
    /\ ~call.add_to_history
    /\ messages = <<Turn("system", TurnText(1)), Turn("user", <<"h","i">>)>>
    /\ conversation_history = <<Turn("system", TurnText(1))>>

(* C24 as stated: on an unknown failure the reply is a generic apology and  *)
(* the history is left as it was when the failure occurred: it is not       *)
(* reset and none of its turns is removed or altered.                       *)
C24_UnknownFailureKeepsTurns ==
    [][ReplyStep({"malformed"}) =>
          LET atFailure == conversation_history
          IN  /\ "error" \in DOMAIN result'
              /\ NonBlank(result'.text)
              /\ Len(conversation_history') >= Len(atFailure)
              /\ SubSeq(conversation_history', 1, Len(atFailure)) = atFailure]_vars

\* the index of the turn the capacity rule evicts from a full history h when
\* one more turn is recorded: the oldest turn that is not a system turn at
\* index 0
OldestUnpinned(h) == IF h[1].role = "system" THEN 2 ELSE 1

(* C24 amended: on an unknown failure the reply is a generic apology and    *)
(* the history is left as it was when the failure occurred: it is not       *)
(* reset and none of its turns is removed or altered, except that the       *)
(* oldest turn not pinned at index 0 is evicted when the history already    *)
(* holds maxTurns turns and recording the apology makes it exceed them.     *)
C24_UnknownFailureKeepsTurnsUntilFull ==
    [][ReplyStep({"malformed"}) =>
          LET atFailure == conversation_history
              after == conversation_history'
          IN  /\ "error" \in DOMAIN result'
              /\ NonBlank(result'.text)
              /\ \/ /\ Len(after) >= Len(atFailure)
                    /\ SubSeq(after, 1, Len(atFailure)) = atFailure
                 \/ /\ Len(atFailure) = MaxTurns
                    /\ Len(after) = MaxTurns
                    /\ after[MaxTurns] = Turn("assistant", result'.text)
                    /\ SubSeq(after, 1, MaxTurns - 1) =
                          Without(atFailure, {OldestUnpinned(atFailure)})]_vars

\* an unknown failure of a recorded request on a history of 49 turns: the
\* user turn filled it and the apology evicted the oldest turn
C24_Witness ==
    /\ call.op = "get_response"
    /\ call.outcome = "malformed"
    /\ call.add_to_history
    /\ n_calls = 1
    /\ next_id = 50
    /\ Len(conversation_history) = 50
    /\ conversation_history[1].content = TurnText(2)
    /\ conversation_history[49] = Turn("user", <<"h","i">>)
    /\ conversation_history[50] = Turn("assistant", result.text)

(* C21 as stated: after a reply that completes without failure and without  *)
(* abort, with add_to_history=true, the history ends with the new user turn *)
(* immediately followed by an assistant turn whose content is the full      *)
(* reply text; a reply aborted by NO_REPLY appends no assistant turn.       *)
C21_ReplyRecorded ==
    [][/\ (ReplyStep({"ok", "ok_empty", "ok_null", "ok_parts"})
           /\ call'.add_to_history) =>
             LET g == conversation_history'
             IN  /\ Len(g) >= 2
                 /\ g[Len(g) - 1] = Turn("user", call'.user_input)
                 /\ g[Len(g)] = Turn("assistant", result'.text)
       /\ (NoReplySent' /\ ~NoReplySent) =>
             conversation_history' = conversation_history]_vars

(* C21 amended: after a get_response that completes without failure, with  *)
(* add_to_history=true, the turns appended to the history are the new user  *)
(* turn, if the user input holds text other than whitespace, followed by an *)
(* assistant turn whose content is the full reply text, if that text is     *)
(* neither empty nor null; so for a non-blank input and such a reply the    *)
(* history ends with the user turn immediately followed by the assistant    *)
(* turn.  A run of stream_speech_with_buffering aborted by NO_REPLY appends *)
(* no turn.                                                                 *)
C21_ReplyRecordedIfAny ==
    [][/\ (ReplyStep({"ok", "ok_empty", "ok_null", "ok_parts"})
           /\ call'.add_to_history) =>
             LET g == conversation_history'
                 reply == IF Truthy(result'.text)
                          THEN <<Turn("assistant", result'.text)>> ELSE <<>>
             IN  /\ AppendedWithEviction(call.history, UserTurns \o reply, g)
                 /\ (NonBlank(call'.user_input) /\ Truthy(result'.text)) =>
                       /\ g[Len(g) - 1] = Turn("user", call'.user_input)
                       /\ g[Len(g)] = Turn("assistant", result'.text)
       /\ (NoReplySent' /\ ~NoReplySent) =>
             conversation_history' = conversation_history]_vars

\* a recorded reply on a full history: the user turn and the reply are its
\* last two turns
C21_Witness ==
    /\ call.op = "get_response"
    /\ call.outcome = "ok"
    /\ call.add_to_history
    /\ n_calls = 1
    /\ next_id = 51
    /\ Len(conversation_history) = 50
    /\ conversation_history[49] = Turn("user", <<"h","i">>)
    /\ conversation_history[50] = Turn("assistant", result.text)
    /\ result.text /= <<>>

----------------------------------------------------------------------------
(* Vocabulary of the segmenter property *)

\* t without the whitespace before its first and after its last character
\* that is not whitespace
Trimmed(t) ==
    LET solid == {i \in 1..Len(t) : t[i] \notin Whitespace}
    IN  IF solid = {} THEN <<>>
        ELSE [i \in 1..(SeqMax(solid) - SeqMin(solid) + 1) |->
                 t[SeqMin(solid) + i - 1]]

\* t ends in . ! or ?, or in one of them followed by one double quote
EndsSentence(t) ==
    LET n == Len(t)
    IN  \/ n >= 1 /\ t[n] \in {".", "!", "?"}
        \/ n >= 2 /\ t[n] = "\"" /\ t[n - 1] \in {".", "!", "?"}

(* C29: is_sentence_complete(t) is true exactly when t, trimmed of the      *)
(* whitespace around it, ends in . ! or ? optionally followed by exactly    *)
(* one double quote; it is false for the empty and the whitespace-only      *)
(* text; the call changes nothing but its returned value.                   *)
C29_SegmenterContract ==
    /\ [](Len(checked_result) > 0 =>
            /\ checked_result[1] = EndsSentence(Trimmed(checked_text))
            /\ Trimmed(checked_text) = <<>> => checked_result[1] = FALSE)
    /\ [][Len(checked_result') /= Len(checked_result) =>
            UNCHANGED <<checked_text, stream_vars, llm_vars, session_vars,
                        overlap_vars, tts_vars>>]_vars

\* a text in whitespace that ends in a period and one closing quote was
\* found complete
C29_Witness ==
    /\ checked_text = <<" ", ".", "\"">>
    /\ Len(checked_result) = 1
    /\ checked_result[1] = TRUE

----------------------------------------------------------------------------
(* C28: when the caller cancels a run at a suspension point (waiting for a  *)
(* token, for a synthesis or for the send of an event), the cancellation    *)
(* leaves the function: from then on no token is consumed and no event is   *)
(* emitted, the interrupted send and the events after it are never          *)
(* delivered, no value is returned, and the history is not touched, so no   *)
(* partial assistant turn is appended.                                      *)
C28_CancelStopsRun ==
    [][/\ pc = "cancelled" =>
             UNCHANGED <<consumed, sent, tts_calls, conversation_history>>
       /\ (pc' = "cancelled" /\ pc /= "cancelled") =>
             /\ pc \in Awaits
             /\ conversation_history' = conversation_history
             /\ ret' = NoValue
             /\ tts_calls' = tts_calls
             /\ sent' = sent
             /\ consumed' = consumed]_vars

\* a run cancelled while the synthesis of its second sentence was awaited:
\* two tokens consumed, one chunk sent, nothing returned
C28_Witness ==
    /\ pc = "cancelled"
    /\ raised = "CancelledError"
    /\ Len(consumed) = 2
    /\ Len(tts_calls) = 2
    /\ Len(Chunks(sent)) = 1
    /\ sent[Len(sent)].type = "TTS_CHUNK"
    /\ ret = NoValue
    /\ conversation_history = <<>>

----------------------------------------------------------------------------
(* C25 as stated: sessions share no mutable state: the messages of a        *)
(* request made for one session hold no user turn of another session, that  *)
(* is, every user turn among them is what that session's own user said.     *)
C25_SessionsIsolated ==
    (call.op = "get_response" /\ llm_service /= "None") =>
        \A i \in 1..Len(messages) :
            messages[i].role = "user" =>
                messages[i].content = call.user_input

\* the assistant turn at index i of h answers the user turn before it
AnswersTurnBefore(h, i) ==
    (/\ h[i].role = "assistant"
     /\ Len(h[i].content) > 2
     /\ SubSeq(h[i].content, 1, 2) = <<"R", ":">>
     /\ i > 1
     /\ h[i - 1].role = "user") =>
        h[i].content = <<"R", ":">> \o h[i - 1].content

(* C26 as stated: the history mutations of overlapping get_response calls   *)
(* are serialized: the history never holds a reply right after the user     *)
(* turn of another call, and the reset of a failed call never erases the    *)
(* user turn that a call still running has appended.                        *)
C26_MutationsSerialized ==
    [][/\ \A i \in 1..Len(conversation_history') :
             AnswersTurnBefore(conversation_history', i)
       /\ \A t \in Invocations :
             (invocations[t].pc = "posting" /\ invocations'[t].pc = "posting"
              /\ invocations[t].add_to_history) =>
                \E i \in 1..Len(conversation_history') :
                    conversation_history'[i] =
                        Turn("user", IF t = 1 THEN <<"h","i">>
                                     ELSE <<"y","o">>)]_vars

----------------------------------------------------------------------------
(* C35: an empty or whitespace-only user input is never recorded and never  *)
(* sent as a turn: for either value of add_to_history the call adds no user *)
(* turn to the history, the messages of its request are the system prompt   *)
(* if one is given followed by the history as it was, with no user message  *)
(* for the input, and the request is still made.                            *)
C35_BlankInputNotATurn ==
    [][/\ ((CallStep("get_response") /\ ~NonBlank(call'.user_input)) =>
          /\ n_posts' = n_posts + 1
          /\ messages' =
                (IF call'.system_prompt /= <<>>
                 THEN <<Turn("system", call'.system_prompt)>> ELSE <<>>)
                \o conversation_history
          /\ \A i \in 1..Len(messages') :
                messages'[i] /= Turn("user", call'.user_input)
          /\ conversation_history' = conversation_history)
       /\ (ReplyStep(PostOutcomes) /\ ~NonBlank(call'.user_input)) =>
          /\ n_posts' = n_posts
          /\ messages' = messages
          /\ \A i \in 1..Len(conversation_history') :
                conversation_history'[i].role = "user" =>
                    /\ conversation_history'[i].content /= call'.user_input
                    /\ \E j \in 1..Len(call.history) :
                          call.history[j] = conversation_history'[i]]_vars

\* a whitespace-only input with add_to_history=True was answered: the
\* request was made and the history holds the reply after its old turn
C35_Witness ==
    /\ call.op = "get_response"
    /\ call.user_input = <<" ", "\t">>
    /\ call.add_to_history
    /\ call.outcome = "ok"
    /\ n_posts = 1
    /\ Len(conversation_history) = 2
    /\ conversation_history[2].role = "assistant"

----------------------------------------------------------------------------
(* C31 as stated: the system prompt is put in the messages of a request     *)
(* only when it is not already in the history: whatever the history and the *)
(* prompt, at most one system message of the request carries the prompt.    *)
C31_PromptSentOnce ==
    (call.op = "get_response" /\ call.system_prompt /= <<>>) =>
        Cardinality({i \in 1..Len(messages) :
                        messages[i] = Turn("system", call.system_prompt)}) <= 1

----------------------------------------------------------------------------
(* Vocabulary of the coverage property *)

\* s is the end of t
IsSuffix(s, t) ==
    Len(s) <= Len(t) /\ SubSeq(t, Len(t) - Len(s) + 1, Len(t)) = s

RECURSIVE Voiced(_, _)
\* the text is cut into consecutive pieces, one for each call in order,
\* each piece being the text of its call with whitespace around it, and
\* what follows the last piece is whitespace
Voiced(text, calls) ==
    IF calls = <<>>
    THEN ~NonBlank(text)
    ELSE \E k \in 1..Len(text) :
            /\ Trimmed(SubSeq(text, 1, k)) = calls[1]
            /\ Voiced(SubSeq(text, k + 1, Len(text)), Tail(calls))

(* C33: at every point of a run the buffer is the end of the accumulated    *)
(* text; and in a run that returned without abort and without a failed      *)
(* synthesis, the texts handed to synthesis, in order, are the accumulated  *)
(* text cut at the sentence boundaries with the whitespace at the cuts      *)
(* removed: nothing is voiced twice, nothing but whitespace is left out.    *)
C33_SynthesisCoversText ==
    /\ IsSuffix(buffer, full_response)
    /\ (pc = "done" /\ NormalResponseSent
          /\ Len(Chunks(sent)) = Len(tts_calls)) =>
             /\ Voiced(full_response, tts_calls)
             /\ \A i \in 1..Len(tts_calls) : NonBlank(tts_calls[i])

\* a returned run of three tokens, a sentence, a space and a short rest:
\* two texts were voiced and the space between them was not
C33_Witness ==
    /\ pc = "done"
    /\ NormalResponseSent
    /\ Len(Chunks(sent)) = 2
    /\ Len(consumed) = 3
    /\ consumed[2] = <<" ">>
    /\ tts_calls = << <<"H","e","l","l","o"," ","w","o","r","l","d",".">>,
                      <<"O","k",".">> >>
    /\ Len(full_response) = 16

----------------------------------------------------------------------------
(* Vocabulary of the termination property *)

\* the last two messages sent are TTS_END and LLM_RESPONSE
EndsWithEndAndResponse ==
    /\ Len(sent) >= 2
    /\ sent[Len(sent) - 1].type = "TTS_END"
    /\ sent[Len(sent)].type = "LLM_RESPONSE"

(* C34 as stated: when the token stream is finite and does not fail, then   *)
(* for every pattern of synthesis successes and failures the run            *)
(* eventually has sent TTS_END followed by LLM_RESPONSE, has returned and   *)
(* stays so.                                                                *)
C34_RunEndsWithResponse == <>[](pc = "done" /\ EndsWithEndAndResponse)

(* C34 amended: when the token stream is finite and does not fail, then for *)
(* every pattern of synthesis successes and failures the run terminates:    *)
(* eventually either it has sent TTS_END followed by LLM_RESPONSE and       *)
(* returned, or the send of TTS_START, TTS_END or LLM_RESPONSE failed and   *)
(* that failure left the function; once it has ended nothing more is sent.  *)
C34_RunTerminates ==
    /\ <>[](\/ pc = "done" /\ EndsWithEndAndResponse
            \/ pc = "raised" /\ raised = "websocket")
    /\ [][(pc \in {"done", "raised"}) => (sent' = sent)]_vars

\* a run returned after the synthesis of its only sentence and of the rest
\* of its text both failed: no chunk, TTS_END and LLM_RESPONSE sent
C34_Witness ==
    /\ pc = "done"
    /\ EndsWithEndAndResponse
    /\ Len(tts_calls) = 2
    /\ Chunks(sent) = <<>>
    /\ Len(sent) = 3

----------------------------------------------------------------------------
(* Vocabulary of the recognition properties *)

\* the turn-complete callback was called for the i-th message
Notified(i) == handled[i].turn_complete_calls /= <<>>

\* the i-th message is the event of the given type, without a transcript
EventAt(i, type) ==
    handled[i].message.type = type /\ handled[i].message.transcript = <<>>

\* the i-th message is a transcript marked speech_final
SpeechFinalAt(i) ==
    handled[i].message.transcript /= <<>> /\ handled[i].message.speech_final

(* C32 as stated: for each user turn the turn-complete callback is called   *)
(* at most once and only when the turn is finally complete: an              *)
(* EagerEndOfTurn followed by TurnResumed was not notified, and of an       *)
(* EagerEndOfTurn followed by EndOfTurn, or of a speech_final transcript    *)
(* followed by the EndOfTurn event, at most one was notified.               *)
C32_OncePerCompleteTurn ==
    \A i \in 1..(Len(handled) - 1) :
        /\ (EventAt(i, "EagerEndOfTurn")
              /\ handled[i + 1].message.type = "TurnResumed") =>
                 ~Notified(i)
        /\ ((EventAt(i, "EagerEndOfTurn") \/ SpeechFinalAt(i))
              /\ EventAt(i + 1, "EndOfTurn")) =>
                 ~(Notified(i) /\ Notified(i + 1))

----------------------------------------------------------------------------
(* C36 as stated: when transcribe_async has returned or raised after its    *)
(* connection was established (on a speech_final result, on the timeout of  *)
(* the wait, on a failure while the audio was sent), that connection is     *)
(* closed, disconnect having been performed, and is_processing is false.    *)
C36_ConnectionClosedOnExit ==
    (ta_pc \in {"returned", "raised"} /\ connection /= 0
       /\ connections[connection] /= "open") =>
        /\ connections[connection] \in {"finished", "closed"}
        /\ stt_is_processing = FALSE

====
